---- MODULE Spec2Model ----
(***************************************************************************)
(* Aliasly: alias resolution and execution engine.                         *)
(*                                                                         *)
(* Strings are sequences of one-character strings, so that placeholder     *)
(* scanning and literal replacement work on characters as the Go code      *)
(* does.  The specifications share the variables:                          *)
(*   SpecScan   ExtractPlaceholders applied to every short template        *)
(*   SpecParse  ParseCommand applied to bounded aliases and argument lists *)
(*   Spec       one invocation: lookup, expansion, launch, child exit      *)
(*   SpecCore   repeated dry-run invocations of RunWithOptions             *)
(*   SpecStore  the alias store under API calls, web handlers and imports  *)
(*   SpecRemove one `al remove <name>` command                             *)
(*   SpecDir    GetConfigDir on every environment                          *)
(*   SpecLoad   goroutines calling the store before it is loaded           *)
(*   SpecWriter one call of AddAlias, UpdateAlias or RemoveAlias           *)
(*   SpecCopy   a caller changing the slice GetAllAliases returned         *)
(*   SpecCreate concurrent POST /api/aliases requests                      *)
(*   SpecNested ParseCommand on templates with nested braces               *)
(*   SpecAdd    one `al add` command                                       *)
(*   SpecImport POST /api/config/import requests                           *)
(***************************************************************************)
EXTENDS Integers, Sequences, FiniteSets, TLC

VARIABLES
    pc,          \* position of the invocation
    caller,      \* entry point: "runRootCmd", "Run" or "RunWithOptions"
    aliases,     \* globalConfig.Aliases: the alias list of the store
    keyword,     \* `al` arguments before the parameters: <<>> or <<alias name>>
    a,           \* the alias handed to ParseCommand / Run
    args,        \* positional arguments
    opts,        \* ExecuteOptions
    cfg,         \* what config.Get() yields: load error, Settings
    env,         \* $SHELL and runtime.GOOS
    command,     \* expanded command returned by ParseCommand
    perr,        \* error returned by ParseCommand
    bound,       \* value substituted in each pass of the substitution loop
    names,       \* result of ExtractPlaceholders
    child,       \* child process: "none", "running", "exited", "signaled", "startfailed"
    childStatus, \* exit status of an exited child
    argv,        \* argument vector of the launched child
    launches,    \* number of child processes started or attempted
    stdout,      \* lines printed by the invocation
    ret,         \* (code, err) returned by Run / RunWithOptions
    exitStatus,  \* <<exit status>> of the `al` process, <<>> while it runs
    flagVerbose, \* the persistent flag -v / --verbose of the `al` command line
    log,         \* history: the expansions that earlier invocations returned
    disk,        \* the alias list in the configuration file
    req,         \* the store command or web request in progress
    before,      \* history: memory and disk when the command in progress began
    configDir,   \* result of GetConfigDir
    saveFailures, \* history: how many times saveInternal has failed
    loaded,      \* the package variable `loaded` of internal/config
    configMutex, \* the goroutine that holds configMutex, 0 when it is free
    goroutines,  \* the store operation of each goroutine and its position in it
    loads,       \* history: how many runs of loadInternal have set `loaded`
    fileState,   \* the configuration file: "absent", "valid", "unreadable", "corrupt"
    heap,        \* the backing arrays of the Params slices, by address
    returned     \* the slice a caller of GetAllAliases holds

vars == <<pc, caller, aliases, keyword, a, args, opts, cfg, env, command, perr, bound,
          names, child, childStatus, argv, launches, stdout, ret, exitStatus,
          flagVerbose, log, disk, req, before, configDir, saveFailures,
          loaded, configMutex, goroutines, loads, fileState, heap, returned>>

\* the variables of the lazy load under configMutex
lockVars == <<loaded, configMutex, goroutines, loads, fileState>>

\* the variables of the slices handed out by GetAllAliases
copyVars == <<heap, returned>>

\* the variables that neither the parser nor an invocation of an alias writes
otherVars == <<flagVerbose, log, disk, req, before, configDir, saveFailures, lockVars, copyVars>>

----------------------------------------------------------------------------
(* Bounds of the model *)

MaxPieces == 2
MaxParams == 2
MaxArgs == 2
MaxLen == 6
MaxRuns == 2
MaxAliases == 4
MaxSaveFailures == 1

----------------------------------------------------------------------------
(* Characters and strings *)

Min(x, y) == IF x < y THEN x ELSE y

\* \w of Go's regexp: ASCII letters, digits and underscore
WordChars ==
    {"a","b","c","d","e","f","g","h","i","j","k","l","m","n","o","p","q","r",
     "s","t","u","v","w","x","y","z","A","B","C","D","E","F","G","H","I","J",
     "K","L","M","N","O","P","Q","R","S","T","U","V","W","X","Y","Z","0","1",
     "2","3","4","5","6","7","8","9","_"}

IsWordChar(c) == c \in WordChars

RECURSIVE SeqsUpTo(_, _)
SeqsUpTo(S, n) ==
    IF n = 0 THEN {<<>>}
    ELSE LET shorter == SeqsUpTo(S, n - 1)
         IN  shorter \cup {Append(s, x) : s \in {t \in shorter : Len(t) = n - 1}, x \in S}

RECURSIVE Concat(_)
Concat(ss) == IF ss = <<>> THEN <<>> ELSE Head(ss) \o Concat(Tail(ss))

HasPrefixAt(s, i, old) ==
    /\ i + Len(old) - 1 <= Len(s)
    /\ \A k \in 1..Len(old) : s[i + k - 1] = old[k]

RECURSIVE ReplaceFrom(_, _, _, _)
ReplaceFrom(s, old, new, i) ==
    IF i > Len(s) THEN <<>>
    ELSE IF HasPrefixAt(s, i, old)
         THEN new \o ReplaceFrom(s, old, new, i + Len(old))
         ELSE <<s[i]>> \o ReplaceFrom(s, old, new, i + 1)

\* strings.ReplaceAll: non-overlapping occurrences, leftmost first; an empty
\* old string matches before every character and at the end
ReplaceAll(s, old, new) ==
    IF old = <<>>
    THEN Concat([k \in 1..Len(s) |-> new \o <<s[k]>>]) \o new
    ELSE ReplaceFrom(s, old, new, 1)

\* the text of a placeholder token, as written in a template or a value
Token(name) == <<"{", "{">> \o name \o <<"}", "}">>

Contains(s, sub) == \E i \in 1..(Len(s) + 1) : HasPrefixAt(s, i, sub)

----------------------------------------------------------------------------
(* internal/alias/parser.go *)

NoError == [kind |-> "nil", ParamName |-> <<>>]
ParseError(name) == [kind |-> "ParseError", ParamName |-> name]
LaunchFailure == [kind |-> "LaunchFailure", ParamName |-> <<>>]

\* variant: the placeholder is built without its braces
Placeholder_NoBraces(name) == name

\* fmt.Sprintf("{{%s}}", param.Name)
Placeholder(name) == <<"{", "{">> \o name \o <<"}", "}">>

EmptyMap == [k \in {} |-> <<>>]
Put(m, key, v) == [k \in (DOMAIN m) \cup {key} |-> IF k = key THEN v ELSE m[k]]

\* the map `provided` after the first k iterations of the binding loop
RECURSIVE ProvidedUpTo(_, _, _)
ProvidedUpTo(params, as, k) ==
    IF k = 0 THEN EmptyMap
    ELSE LET m == ProvidedUpTo(params, as, k - 1)
         IN  IF k <= Len(as) THEN Put(m, params[k].Name, as[k]) ELSE m

Provided(params, as) == ProvidedUpTo(params, as, Len(params))

\* index of the parameter at which the required-check loop returns, 0 if none
MissingRequired(params, provided) ==
    LET bad == {i \in 1..Len(params) :
                    params[i].Required /\ params[i].Name \notin DOMAIN provided}
    IN  IF bad = {} THEN 0 ELSE CHOOSE i \in bad : \A j \in bad : i <= j

\* the value the substitution loop uses for the parameter at index i
ValueFor(params, provided, i) ==
    IF params[i].Name \in DOMAIN provided
    THEN provided[params[i].Name]
    ELSE params[i].Default

\* variant: the passes run from the last declared parameter to the first
RECURSIVE SubstituteFrom_Reverse(_, _, _, _)
SubstituteFrom_Reverse(cmd, params, provided, i) ==
    IF i > Len(params) THEN cmd
    ELSE ReplaceAll(SubstituteFrom_Reverse(cmd, params, provided, i + 1),
                    Placeholder(params[i].Name), ValueFor(params, provided, i))

\* the command after the substitution passes i..Len(params)
RECURSIVE SubstituteFrom(_, _, _, _)
SubstituteFrom(cmd, params, provided, i) ==
    IF i > Len(params) THEN cmd
    ELSE SubstituteFrom(
             ReplaceAll(cmd, Placeholder(params[i].Name), ValueFor(params, provided, i)),
             params, provided, i + 1)

\* variant: more arguments than declared parameters are a usage error
ParseCommand_StrictArity(al, as) ==
    LET provided == Provided(al.Params, as)
        miss     == MissingRequired(al.Params, provided)
    IN  IF Len(as) > Len(al.Params)
        THEN [command |-> <<>>, err |-> ParseError(<<>>), bound |-> <<>>]
        ELSE IF miss # 0
        THEN [command |-> <<>>, err |-> ParseError(al.Params[miss].Name), bound |-> <<>>]
        ELSE [command |-> SubstituteFrom(al.Command, al.Params, provided, 1),
              err     |-> NoError,
              bound   |-> [i \in 1..Len(al.Params) |-> ValueFor(al.Params, provided, i)]]

ParseCommand(al, as) ==
    LET provided == Provided(al.Params, as)
        miss     == MissingRequired(al.Params, provided)
    IN  IF miss # 0
        THEN [command |-> <<>>, err |-> ParseError(al.Params[miss].Name), bound |-> <<>>]
        ELSE [command |-> SubstituteFrom(al.Command, al.Params, provided, 1),
              err     |-> NoError,
              bound   |-> [i \in 1..Len(al.Params) |-> ValueFor(al.Params, provided, i)]]

\* the greedy \w+: the number of word characters from position i on
WordRun(s, i) ==
    LET stops == {j \in i..Len(s) : ~IsWordChar(s[j])}
    IN  IF stops = {} THEN Len(s) - i + 1
        ELSE (CHOOSE j \in stops : \A k \in stops : j <= k) - i

\* variant: the pattern \{\{(\w*)\}\}, which accepts an empty identifier
MatchLenAt_EmptyIdentifier(s, i) ==
    IF ~HasPrefixAt(s, i, <<"{", "{">>) THEN 0
    ELSE LET w == WordRun(s, i + 2)
         IN  IF HasPrefixAt(s, i + 2 + w, <<"}", "}">>) THEN w + 4 ELSE 0

\* length of the match of \{\{(\w+)\}\} that starts at position i, 0 if none
MatchLenAt(s, i) ==
    IF ~HasPrefixAt(s, i, <<"{", "{">>) THEN 0
    ELSE LET w == WordRun(s, i + 2)
         IN  IF w >= 1 /\ HasPrefixAt(s, i + 2 + w, <<"}", "}">>) THEN w + 4 ELSE 0

\* paramPattern.FindAllStringSubmatch(command, -1), capture group 1 of each match
RECURSIVE ScanFrom(_, _)
ScanFrom(s, i) ==
    IF i > Len(s) THEN <<>>
    ELSE LET n == MatchLenAt(s, i)
         IN  IF n = 0 THEN ScanFrom(s, i + 1)
             ELSE <<SubSeq(s, i + 2, i + n - 3)>> \o ScanFrom(s, i + n)

ExtractPlaceholders(cmd) == ScanFrom(cmd, 1)

\* variant: every placeholder counts as defined
ValidatePlaceholders_None(al) == <<>>

\* the placeholders of the command that no declared parameter defines
ValidatePlaceholders(al) ==
    SelectSeq(ExtractPlaceholders(al.Command),
              LAMBDA p : \A i \in 1..Len(al.Params) : al.Params[i].Name # p)

----------------------------------------------------------------------------
(* Inputs *)

X == <<"x">>
Y == <<"y">>
Dash == <<"-">>

\* characters of the templates that are scanned exhaustively
ScanAlphabet == {"{", "}", "x", "y", "-"}

\* building blocks of the longer templates
Pieces == {<<"{">>, X, Token(X), Token(Y), Token(Dash)}

PieceTemplates(n) == {Concat(ps) : ps \in SeqsUpTo(Pieces, n)}

ScanTemplates == SeqsUpTo(ScanAlphabet, MaxLen) \cup PieceTemplates(MaxPieces + 1)

ParamNames == {X, Y, Dash}
Defaults == {<<>>, <<"d">>}
ArgValues == {<<>>, <<"a">>, Token(Y)}

ParamSpecs == [Name : ParamNames, Required : BOOLEAN, Default : Defaults]

NoAlias == [Name |-> <<>>, Command |-> <<>>, Params |-> <<>>]
NoOpts == [Shell |-> "", Verbose |-> FALSE, DryRun |-> FALSE]
NoCfg == [err |-> FALSE, Shell |-> "", Verbose |-> FALSE]
NoEnv == [SHELL |-> "", GOOS |-> "linux"]
NoReturn == [code |-> 0, err |-> NoError]
NotExited == <<>>
Exited(status) == <<status>>
NoEntry == [Name |-> <<>>, Command |-> <<>>, Description |-> <<>>, Params |-> <<>>]
NoRequest ==
    [op |-> "none", name |-> <<>>, body |-> NoEntry, file |-> <<>>, idx |-> 0,
     existing |-> {}, added |-> 0, skipped |-> 0, answer |-> "", status |-> 0,
     err |-> ""]
NoSnapshot == [aliases |-> <<>>, disk |-> <<>>, valid |-> FALSE]
Snapshot(memory, file) == [aliases |-> memory, disk |-> file, valid |-> TRUE]

\* no goroutine is inside the store and the lazy load is not followed
NoLock ==
    /\ loaded = FALSE
    /\ configMutex = 0
    /\ goroutines = <<>>
    /\ loads = 0
    /\ fileState = "valid"

\* no slice has been handed out
NoCopy ==
    /\ heap = <<>>
    /\ returned = <<>>

\* the variables that one invocation of an alias leaves alone
NoStore ==
    /\ NoLock
    /\ NoCopy
    /\ log = {}
    /\ disk = <<>>
    /\ req = NoRequest
    /\ before = NoSnapshot
    /\ configDir = <<>>
    /\ saveFailures = 0

\* the variables a pure-function specification leaves alone
Unused ==
    /\ caller = "none"
    /\ aliases = <<>>
    /\ keyword = <<>>
    /\ opts = NoOpts
    /\ cfg = NoCfg
    /\ env = NoEnv
    /\ child = "none"
    /\ childStatus = 0
    /\ argv = <<>>
    /\ launches = 0
    /\ stdout = <<>>
    /\ ret = NoReturn
    /\ exitStatus = NotExited
    /\ flagVerbose = FALSE
    /\ NoStore

----------------------------------------------------------------------------
(* SpecScan: ExtractPlaceholders on every template of ScanTemplates *)

InitScan ==
    /\ pc = "Idle"
    /\ a \in {[Name |-> <<>>, Command |-> t, Params |-> <<>>] : t \in ScanTemplates}
    /\ args = <<>>
    /\ command = <<>>
    /\ perr = NoError
    /\ bound = <<>>
    /\ names = <<>>
    /\ Unused

Scan ==
    /\ pc = "Idle"
    /\ names' = ExtractPlaceholders(a.Command)
    /\ pc' = "Scanned"
    /\ UNCHANGED <<otherVars, caller, aliases, keyword, a, args, opts, cfg, env, command, perr, bound,
                   child, childStatus, argv, launches, stdout, ret, exitStatus>>

NextScan == Scan

SpecScan == InitScan /\ [][NextScan]_vars

----------------------------------------------------------------------------
(* SpecParse: ParseCommand on bounded aliases and argument lists *)

InitParse ==
    /\ pc = "Idle"
    /\ a \in [Name : {<<>>}, Command : PieceTemplates(MaxPieces),
              Params : SeqsUpTo(ParamSpecs, MaxParams)]
    /\ args \in SeqsUpTo(ArgValues, MaxArgs)
    /\ command = <<>>
    /\ perr = NoError
    /\ bound = <<>>
    /\ names = <<>>
    /\ Unused

Parse ==
    /\ pc = "Idle"
    /\ LET r == ParseCommand(a, args)
       IN  /\ command' = r.command
           /\ perr' = r.err
           /\ bound' = r.bound
    /\ pc' = "Parsed"
    /\ UNCHANGED <<otherVars, caller, aliases, keyword, a, args, opts, cfg, env, names,
                   child, childStatus, argv, launches, stdout, ret, exitStatus>>

NextParse == Parse

SpecParse == InitParse /\ [][NextParse]_vars

----------------------------------------------------------------------------
(* internal/config: the default configuration and the lookup *)

Gs == <<"g","s">>
Gc == <<"g","c">>
Gp == <<"g","p">>
Zz == <<"z","z">>
Message == <<"m","e","s","s","a","g","e">>
Branch == <<"b","r","a","n","c","h">>
Main == <<"m","a","i","n">>
FeatureX == <<"f","e","a","t","u","r","e","-","x">>
FixBug == <<"f","i","x"," ","b","u","g">>
GitStatus == <<"g","i","t"," ","s","t","a","t","u","s">>
GitCommit ==
    <<"g","i","t"," ","c","o","m","m","i","t"," ","-","a","m"," ","\"">>
        \o Token(Message) \o <<"\"">>
GitPushOrigin == <<"g","i","t"," ","p","u","s","h"," ","o","r","i","g","i","n"," ">>
GitPush == GitPushOrigin \o Token(Branch)
Hi == <<"h","i">>
Echo == <<"e","c","h","o"," ">>

\* an alias with the template `echo {{x}}` and the required parameter x
EchoAlias ==
    [Name |-> <<"e">>, Command |-> Echo \o Token(X),
     Params |-> <<[Name |-> X, Required |-> TRUE, Default |-> <<>>]>>]

\* createDefaultConfig().Aliases
DefaultAliases ==
    << [Name |-> Gs, Command |-> GitStatus, Params |-> <<>>],
       [Name |-> Gc, Command |-> GitCommit,
        Params |-> <<[Name |-> Message, Required |-> TRUE, Default |-> <<>>]>>],
       [Name |-> Gp, Command |-> GitPush,
        Params |-> <<[Name |-> Branch, Required |-> FALSE, Default |-> Main]>>] >>

\* config.FindAlias: a failed load and an absent name both report not found
FindAlias(c, list, name) ==
    LET hits == {i \in 1..Len(list) : list[i].Name = name}
    IN  IF c.err \/ hits = {}
        THEN [alias |-> NoAlias, found |-> FALSE]
        ELSE [alias |-> list[CHOOSE i \in hits : \A j \in hits : i <= j], found |-> TRUE]

\* config.GetDefaultShell
GetDefaultShell(e) ==
    IF e.SHELL # "" THEN e.SHELL
    ELSE IF e.GOOS = "windows" THEN "cmd" ELSE "/bin/sh"

----------------------------------------------------------------------------
(* internal/alias: Execute, Run, RunWithOptions; cmd: runRootCmd *)

\* exit statuses of a child that terminates normally
ExitStatuses == 0..255

\* the shell Execute selects
SelectShell(o, c, e) ==
    IF o.Shell # "" THEN o.Shell
    ELSE IF ~c.err /\ c.Shell # "" THEN c.Shell
         ELSE GetDefaultShell(e)

\* the verbose setting Execute uses
SelectVerbose(o, c) == o.Verbose \/ (~c.err /\ c.Verbose)

\* what Execute prints before it launches
ExecuteOutput(cmd, o, c) ==
    (IF SelectVerbose(o, c) THEN <<[kind |-> "verbose", text |-> cmd]>> ELSE <<>>)
        \o (IF o.DryRun THEN <<[kind |-> "dry-run", text |-> cmd]>> ELSE <<>>)

\* exec.Command(...) of Execute
ChildArgv(cmd, o, c, e) ==
    IF e.GOOS = "windows"
    THEN [path |-> "cmd", flag |-> "/C", arg |-> cmd]
    ELSE [path |-> SelectShell(o, c, e), flag |-> "-c", arg |-> cmd]

\* the error cmd.Run() returns for an outcome of the child; ExitError.ExitCode()
\* is the exit status of an exited process and -1 for one ended by a signal
CmdRun(outcome) ==
    IF outcome.kind = "startfailed" THEN [kind |-> "StartError", code |-> 0]
    ELSE IF outcome.kind = "signaled" THEN [kind |-> "ExitError", code |-> -1]
    ELSE IF outcome.status = 0 THEN [kind |-> "nil", code |-> 0]
    ELSE [kind |-> "ExitError", code |-> outcome.status]

\* variant: every non-nil error of cmd.Run() is returned as an error
ExecuteResult_NoTypeAssertion(runErr) ==
    IF runErr.kind = "nil" THEN [code |-> 0, err |-> NoError]
    ELSE [code |-> -1, err |-> LaunchFailure]

\* what Execute returns for the error of cmd.Run()
ExecuteResult(runErr) ==
    IF runErr.kind = "nil" THEN [code |-> 0, err |-> NoError]
    ELSE IF runErr.kind = "ExitError" THEN [code |-> runErr.code, err |-> NoError]
    ELSE [code |-> -1, err |-> LaunchFailure]

\* os.Exit(code): the status the parent of `al` observes
OsExit(code) == code % 256

\* variant: any failure of the command exits with the fixed status 1
RootExit_FixedFailure(r) == IF r.err # NoError \/ r.code # 0 THEN 1 ELSE 0

\* runRootCmd after alias.Run returned r
RootExit(r) == IF r.err # NoError THEN 1 ELSE OsExit(r.code)

RootOutput(r) ==
    IF r.err = NoError THEN <<>>
    ELSE IF r.err.kind = "ParseError"
         THEN <<[kind |-> "error", text |-> r.err.ParamName], [kind |-> "usage", text |-> a.Name]>>
         ELSE <<[kind |-> "error", text |-> <<>>]>>

\* Run / RunWithOptions returns r; runRootCmd then exits
Return(r, printed) ==
    /\ ret' = r
    /\ pc' = "Terminated"
    /\ IF caller = "runRootCmd"
       THEN /\ exitStatus' = Exited(RootExit(r))
            /\ stdout' = stdout \o printed \o RootOutput(r)
       ELSE /\ exitStatus' = exitStatus
            /\ stdout' = stdout \o printed

\* no argument, one argument, and more arguments than any default alias declares
RunArgLists == {<<>>, <<Hi>>, <<FixBug>>, <<FeatureX>>, <<FeatureX, FixBug>>}

\* the aliases handed to Run and RunWithOptions
RunAliases == {DefaultAliases[i] : i \in 1..Len(DefaultAliases)} \cup {EchoAlias}
Shells == {"", "/bin/zsh"}
Configs == {[err |-> TRUE, Shell |-> "", Verbose |-> FALSE]}
               \cup [err : {FALSE}, Shell : Shells, Verbose : BOOLEAN]
Envs == [SHELL : {"", "/bin/bash"}, GOOS : {"linux", "windows"}]
Options == [Shell : {"", "/bin/fish"}, Verbose : BOOLEAN, DryRun : BOOLEAN]

Init ==
    /\ pc = "Idle"
    /\ aliases = DefaultAliases
    /\ cfg \in Configs
    /\ env \in Envs
    /\ args \in RunArgLists
    /\ \/ /\ caller = "runRootCmd"
          /\ keyword \in {<<>>, <<Gs>>, <<Gc>>, <<Gp>>, <<Zz>>}
          /\ keyword = <<>> => args = <<>>
          /\ a = NoAlias
          /\ opts = NoOpts
          /\ flagVerbose \in BOOLEAN
       \/ /\ caller = "Run"
          /\ keyword = <<>>
          /\ a \in RunAliases
          /\ opts = NoOpts
          /\ flagVerbose = FALSE
       \/ /\ caller = "RunWithOptions"
          /\ keyword = <<>>
          /\ a \in RunAliases
          /\ opts \in Options
          /\ flagVerbose = FALSE
    /\ NoStore
    /\ command = <<>>
    /\ perr = NoError
    /\ bound = <<>>
    /\ names = <<>>
    /\ child = "none"
    /\ childStatus = 0
    /\ argv = <<>>
    /\ launches = 0
    /\ stdout = <<>>
    /\ ret = NoReturn
    /\ exitStatus = NotExited

\* runRootCmd without arguments prints the help and returns
Help ==
    /\ pc = "Idle"
    /\ caller = "runRootCmd"
    /\ keyword = <<>>
    /\ stdout' = Append(stdout, [kind |-> "help", text |-> <<>>])
    /\ exitStatus' = Exited(0)
    /\ pc' = "Terminated"
    /\ UNCHANGED <<otherVars, caller, aliases, keyword, a, args, opts, cfg, env, command, perr,
                   bound, names, child, childStatus, argv, launches, ret>>

\* variant: runRootCmd prints the error and goes on with the empty alias
LookupNotFound_FallsThrough ==
    /\ pc = "Idle"
    /\ caller = "runRootCmd"
    /\ keyword # <<>>
    /\ ~FindAlias(cfg, aliases, keyword[1]).found
    /\ stdout' = Append(stdout, [kind |-> "not-found", text |-> keyword[1]])
    /\ pc' = "Expanding"
    /\ UNCHANGED <<otherVars, caller, aliases, keyword, a, args, opts, cfg, env, command, perr,
                   bound, names, child, childStatus, argv, launches, ret, exitStatus>>

\* runRootCmd: the lookup reports not found
LookupNotFound ==
    /\ pc = "Idle"
    /\ caller = "runRootCmd"
    /\ keyword # <<>>
    /\ ~FindAlias(cfg, aliases, keyword[1]).found
    /\ stdout' = Append(stdout, [kind |-> "not-found", text |-> keyword[1]])
    /\ exitStatus' = Exited(1)
    /\ pc' = "Terminated"
    /\ UNCHANGED <<otherVars, caller, aliases, keyword, a, args, opts, cfg, env, command, perr,
                   bound, names, child, childStatus, argv, launches, ret>>

\* runRootCmd: the lookup finds the alias and calls alias.Run
LookupFound ==
    /\ pc = "Idle"
    /\ caller = "runRootCmd"
    /\ keyword # <<>>
    /\ FindAlias(cfg, aliases, keyword[1]).found
    /\ a' = FindAlias(cfg, aliases, keyword[1]).alias
    /\ pc' = "Expanding"
    /\ UNCHANGED <<otherVars, caller, aliases, keyword, args, opts, cfg, env, command, perr, bound,
                   names, child, childStatus, argv, launches, stdout, ret, exitStatus>>

\* Run or RunWithOptions is called with an alias
Call ==
    /\ pc = "Idle"
    /\ caller \in {"Run", "RunWithOptions"}
    /\ pc' = "Expanding"
    /\ UNCHANGED <<otherVars, caller, aliases, keyword, a, args, opts, cfg, env, command, perr,
                   bound, names, child, childStatus, argv, launches, stdout, ret, exitStatus>>

\* ParseCommand returns an error: Run returns (-1, err)
ExpandFail ==
    /\ pc = "Expanding"
    /\ ParseCommand(a, args).err # NoError
    /\ perr' = ParseCommand(a, args).err
    /\ Return([code |-> -1, err |-> ParseCommand(a, args).err], <<>>)
    /\ UNCHANGED <<otherVars, caller, aliases, keyword, a, args, opts, cfg, env, command, bound,
                   names, child, childStatus, argv, launches>>

\* variant: Run does not check the error of ParseCommand
ExpandOk_ErrorIgnored ==
    /\ pc = "Expanding"
    /\ command' = ParseCommand(a, args).command
    /\ perr' = ParseCommand(a, args).err
    /\ bound' = ParseCommand(a, args).bound
    /\ pc' = "Launching"
    /\ UNCHANGED <<otherVars, caller, aliases, keyword, a, args, opts, cfg, env, names,
                   child, childStatus, argv, launches, stdout, ret, exitStatus>>

\* variant: the substitution is written into the Command of the alias
ExpandOk_InPlace ==
    /\ pc = "Expanding"
    /\ ParseCommand(a, args).err = NoError
    /\ command' = ParseCommand(a, args).command
    /\ a' = [a EXCEPT !.Command = ParseCommand(a, args).command]
    /\ bound' = ParseCommand(a, args).bound
    /\ pc' = "Launching"
    /\ UNCHANGED <<otherVars, caller, aliases, keyword, args, opts, cfg, env, perr, names,
                   child, childStatus, argv, launches, stdout, ret, exitStatus>>

\* ParseCommand succeeds: Run calls Execute
ExpandOk ==
    /\ pc = "Expanding"
    /\ ParseCommand(a, args).err = NoError
    /\ command' = ParseCommand(a, args).command
    /\ bound' = ParseCommand(a, args).bound
    /\ pc' = "Launching"
    /\ UNCHANGED <<otherVars, caller, aliases, keyword, a, args, opts, cfg, env, perr, names,
                   child, childStatus, argv, launches, stdout, ret, exitStatus>>

\* Execute with DryRun: prints and returns (0, nil)
ExecuteDryRun ==
    /\ pc = "Launching"
    /\ opts.DryRun
    /\ Return([code |-> 0, err |-> NoError], ExecuteOutput(command, opts, cfg))
    /\ UNCHANGED <<otherVars, caller, aliases, keyword, a, args, opts, cfg, env, command, perr,
                   bound, names, child, childStatus, argv, launches>>

\* variant: Execute launches the child even when DryRun is set
ExecuteStart_IgnoresDryRun ==
    /\ pc = "Launching"
    /\ argv' = ChildArgv(command, opts, cfg, env)
    /\ launches' = launches + 1
    /\ child' = "running"
    /\ stdout' = stdout \o ExecuteOutput(command, opts, cfg)
    /\ pc' = "Running"
    /\ UNCHANGED <<otherVars, caller, aliases, keyword, a, args, opts, cfg, env, command, perr,
                   bound, names, childStatus, ret, exitStatus>>

\* Execute: cmd.Run() starts the child and waits for it
ExecuteStart ==
    /\ pc = "Launching"
    /\ ~opts.DryRun
    /\ argv' = ChildArgv(command, opts, cfg, env)
    /\ launches' = launches + 1
    /\ child' = "running"
    /\ stdout' = stdout \o ExecuteOutput(command, opts, cfg)
    /\ pc' = "Running"
    /\ UNCHANGED <<otherVars, caller, aliases, keyword, a, args, opts, cfg, env, command, perr,
                   bound, names, childStatus, ret, exitStatus>>

\* variant: Execute tries once more when the child cannot be started
ExecuteStartFail_Retry ==
    /\ pc = "Launching"
    /\ ~opts.DryRun
    /\ argv' = ChildArgv(command, opts, cfg, env)
    /\ launches' = launches + 1
    /\ IF launches = 0
       THEN /\ stdout' = stdout \o ExecuteOutput(command, opts, cfg)
            /\ UNCHANGED <<pc, child, ret, exitStatus>>
       ELSE /\ child' = "startfailed"
            /\ Return(ExecuteResult(CmdRun([kind |-> "startfailed", status |-> 0])), <<>>)
    /\ UNCHANGED <<otherVars, caller, aliases, keyword, a, args, opts, cfg, env, command, perr,
                   bound, names, childStatus>>

\* Execute: cmd.Run() cannot start the child
ExecuteStartFail ==
    /\ pc = "Launching"
    /\ ~opts.DryRun
    /\ argv' = ChildArgv(command, opts, cfg, env)
    /\ launches' = launches + 1
    /\ child' = "startfailed"
    /\ Return(ExecuteResult(CmdRun([kind |-> "startfailed", status |-> 0])),
              ExecuteOutput(command, opts, cfg))
    /\ UNCHANGED <<otherVars, caller, aliases, keyword, a, args, opts, cfg, env, command, perr,
                   bound, names, childStatus>>

\* the child exits with status c: cmd.Run() returns and Execute returns
ChildExit ==
    /\ pc = "Running"
    /\ \E c \in ExitStatuses :
          /\ childStatus' = c
          /\ Return(ExecuteResult(CmdRun([kind |-> "exited", status |-> c])), <<>>)
    /\ child' = "exited"
    /\ UNCHANGED <<otherVars, caller, aliases, keyword, a, args, opts, cfg, env, command, perr,
                   bound, names, argv, launches>>

\* the child is ended by a signal: cmd.Run() returns and Execute returns
ChildSignaled ==
    /\ pc = "Running"
    /\ child' = "signaled"
    /\ Return(ExecuteResult(CmdRun([kind |-> "signaled", status |-> 0])), <<>>)
    /\ UNCHANGED <<otherVars, caller, aliases, keyword, a, args, opts, cfg, env, command, perr,
                   bound, names, childStatus, argv, launches>>

Next ==
    \/ Help
    \/ LookupNotFound
    \/ LookupFound
    \/ Call
    \/ ExpandFail
    \/ ExpandOk
    \/ ExecuteDryRun
    \/ ExecuteStart
    \/ ExecuteStartFail
    \/ ChildExit
    \/ ChildSignaled

Spec == Init /\ [][Next]_vars

----------------------------------------------------------------------------
(* SpecCore: Run and RunWithOptions called again and again in one process *)

CoreArgLists == {<<>>, <<Hi>>}
CoreOptions == {NoOpts, [Shell |-> "", Verbose |-> FALSE, DryRun |-> TRUE]}

\* a call of Run or RunWithOptions with its arguments
CoreCall(c, al, as, o) ==
    /\ c \in {"Run", "RunWithOptions"}
    /\ al \in RunAliases
    /\ as \in CoreArgLists
    /\ o \in CoreOptions
    /\ c = "Run" => o = NoOpts

InitCore ==
    /\ pc = "Idle"
    /\ aliases = DefaultAliases
    /\ cfg = NoCfg
    /\ env = NoEnv
    /\ keyword = <<>>
    /\ CoreCall(caller, a, args, opts)
    /\ command = <<>>
    /\ perr = NoError
    /\ bound = <<>>
    /\ names = <<>>
    /\ child = "none"
    /\ childStatus = 0
    /\ argv = <<>>
    /\ launches = 0
    /\ stdout = <<>>
    /\ ret = NoReturn
    /\ exitStatus = NotExited
    /\ flagVerbose = FALSE
    /\ NoStore

\* the call has returned; its expansion is remembered and the next call begins
Again ==
    /\ pc = "Terminated"
    /\ Cardinality(log) < MaxRuns
    /\ log' = log \cup {[alias |-> a, args |-> args, command |-> command, err |-> perr]}
    /\ CoreCall(caller', a', args', opts')
    /\ pc' = "Idle"
    /\ command' = <<>>
    /\ perr' = NoError
    /\ bound' = <<>>
    /\ child' = "none"
    /\ childStatus' = 0
    /\ argv' = <<>>
    /\ launches' = 0
    /\ stdout' = <<>>
    /\ ret' = NoReturn
    /\ UNCHANGED <<aliases, keyword, cfg, env, names, exitStatus, flagVerbose, disk, req,
                   before, configDir, saveFailures, lockVars, copyVars>>

NextCore ==
    \/ Call
    \/ ExpandFail
    \/ ExpandOk
    \/ ExecuteDryRun
    \/ ExecuteStart
    \/ ExecuteStartFail
    \/ ChildExit
    \/ ChildSignaled
    \/ Again

SpecCore == InitCore /\ [][NextCore]_vars

----------------------------------------------------------------------------
(* internal/config: the writers of the alias list *)

HasName(list, name) == \E i \in 1..Len(list) : list[i].Name = name

Distinct(list) == \A i, j \in 1..Len(list) : list[i].Name = list[j].Name => i = j

\* variant: AddAlias appends without looking for the name
AddAlias_NoCheck(list, al) == [aliases |-> Append(list, al), err |-> ""]

\* config.AddAlias up to its saveInternal: the new list and the error
AddAlias(list, al) ==
    IF HasName(list, al.Name)
    THEN [aliases |-> list, err |-> "already exists"]
    ELSE [aliases |-> Append(list, al), err |-> ""]

\* config.RemoveAlias up to its saveInternal: every alias of that name is dropped
RemoveAlias(list, name) ==
    IF ~HasName(list, name)
    THEN [aliases |-> list, err |-> "not found"]
    ELSE [aliases |-> SelectSeq(list, LAMBDA e : e.Name # name), err |-> ""]

\* variant: UpdateAlias appends the alias when the name is absent
UpdateAlias_Upsert(list, al) ==
    LET hits == {i \in 1..Len(list) : list[i].Name = al.Name}
    IN  IF hits = {}
        THEN [aliases |-> Append(list, al), err |-> "not found"]
        ELSE [aliases |-> [list EXCEPT ![CHOOSE i \in hits : \A j \in hits : i <= j] = al],
              err |-> ""]

\* config.UpdateAlias up to its saveInternal: the first alias of that name is replaced
UpdateAlias(list, al) ==
    LET hits == {i \in 1..Len(list) : list[i].Name = al.Name}
    IN  IF hits = {}
        THEN [aliases |-> list, err |-> "not found"]
        ELSE [aliases |-> [list EXCEPT ![CHOOSE i \in hits : \A j \in hits : i <= j] = al],
              err |-> ""]

\* config.GetAllAliases: a copy of the list
GetAllAliases(list) == list

\* the error a writer returns: its own, or that of saveInternal
WriterError(r, saved) ==
    IF r.err # "" THEN r.err ELSE IF saved THEN "" ELSE "failed to write config file"

\* the outcomes of os.WriteFile in saveInternal that are still explored
SaveOutcomes == IF saveFailures < MaxSaveFailures THEN BOOLEAN ELSE {TRUE}

\* a writer under configMutex: the change in memory, then saveInternal, which
\* writes the whole list to the file or fails and leaves the file as it was
Write(r, saved) ==
    /\ aliases' = r.aliases
    /\ disk' = IF r.err = "" /\ saved THEN r.aliases ELSE disk
    /\ saveFailures' = IF r.err = "" /\ ~saved THEN saveFailures + 1 ELSE saveFailures

----------------------------------------------------------------------------
(* SpecStore: one alias list under direct calls of the writers, the web     *)
(* handlers and the merge imports.  Every writer runs under configMutex, so *)
(* it is one step; a handler is a sequence of such steps, and the direct    *)
(* calls stand for whatever the other goroutines do between two of them.    *)

StoreNames == {Gs, Gc, Zz}

\* two contents of an alias that differ in command, description and parameters
Plain(name) ==
    [Name |-> name, Command |-> GitStatus, Description |-> <<>>, Params |-> <<>>]
Rich(name) ==
    [Name |-> name, Command |-> GitPush, Description |-> <<"d">>,
     Params |-> <<[Name |-> Branch, Required |-> FALSE, Default |-> Main]>>]

\* the aliases that are added, put in place of another, or sent in a body
StoreEntries == {Plain(n) : n \in StoreNames} \cup {Rich(Gs)}

\* decoded request bodies: also one without a name and one without a command
Bodies == StoreEntries \cup {Plain(<<>>), [Plain(Gs) EXCEPT !.Command = <<>>]}
UrlNames == StoreNames \cup {<<>>}

\* imported files: present and absent names, a name twice, nothing new, empty
ImportFiles ==
    {<<Rich(Gs), Plain(Zz)>>, <<Plain(Zz), Plain(Zz)>>, <<Plain(Gc)>>, <<>>}

InitialStore == <<Plain(Gs), Plain(Gc)>>

\* the variables of an invocation of an alias, which the store commands leave alone
runVars == <<caller, keyword, a, args, opts, cfg, env, command, perr, bound, names, child,
             childStatus, argv, launches, stdout, ret, flagVerbose, log, configDir,
             lockVars, copyVars>>

NoRun ==
    /\ caller = "none"
    /\ keyword = <<>>
    /\ a = NoAlias
    /\ args = <<>>
    /\ opts = NoOpts
    /\ command = <<>>
    /\ perr = NoError
    /\ bound = <<>>
    /\ names = <<>>
    /\ child = "none"
    /\ childStatus = 0
    /\ argv = <<>>
    /\ launches = 0
    /\ stdout = <<>>
    /\ ret = NoReturn
    /\ flagVerbose = FALSE
    /\ log = {}

NoInvocation == NoRun /\ env = NoEnv /\ configDir = <<>>

InitStore ==
    /\ pc = "Idle"
    /\ aliases = InitialStore
    /\ disk = InitialStore
    /\ req = NoRequest
    /\ before = NoSnapshot
    /\ saveFailures = 0
    /\ NoLock
    /\ NoCopy
    /\ cfg = NoCfg
    /\ exitStatus = NotExited
    /\ NoInvocation

\* a finished request: what it was and how it ended
Done(op, status, err) == [NoRequest EXCEPT !.op = op, !.status = status, !.err = err]

\* config.AddAlias called by another goroutine
CallAddAlias ==
    /\ Len(aliases) < MaxAliases
    /\ \E al \in StoreEntries, saved \in SaveOutcomes : Write(AddAlias(aliases, al), saved)
    /\ UNCHANGED <<pc, req, before, runVars, exitStatus>>

\* config.UpdateAlias called by another goroutine
CallUpdateAlias ==
    /\ \E al \in StoreEntries, saved \in SaveOutcomes : Write(UpdateAlias(aliases, al), saved)
    /\ UNCHANGED <<pc, req, before, runVars, exitStatus>>

\* config.RemoveAlias called by another goroutine
CallRemoveAlias ==
    /\ \E name \in StoreNames, saved \in SaveOutcomes : Write(RemoveAlias(aliases, name), saved)
    /\ UNCHANGED <<pc, req, before, runVars, exitStatus>>

\* handleCreateAlias: decode, validate, alias.Find
handleCreateAlias_Find ==
    /\ pc = "Idle"
    /\ \E body \in Bodies :
          IF body.Name = <<>> \/ body.Command = <<>>
          THEN /\ pc' = "Idle"
               /\ req' = Done("handleCreateAlias", 400, "required")
          ELSE IF FindAlias(cfg, aliases, body.Name).found
          THEN /\ pc' = "Idle"
               /\ req' = Done("handleCreateAlias", 409, "already exists")
          ELSE /\ pc' = "CreateAdd"
               /\ req' = [NoRequest EXCEPT !.op = "handleCreateAlias", !.body = body]
    /\ UNCHANGED <<aliases, disk, saveFailures, before, runVars, exitStatus>>

\* handleCreateAlias: alias.Add and the response
handleCreateAlias_Add ==
    /\ pc = "CreateAdd"
    /\ Len(aliases) < MaxAliases
    /\ \E saved \in SaveOutcomes :
          LET r == AddAlias(aliases, req.body)
              e == WriterError(r, saved)
          IN  /\ Write(r, saved)
              /\ req' = Done("handleCreateAlias", IF e = "" THEN 201 ELSE 500, e)
    /\ pc' = "Idle"
    /\ UNCHANGED <<before, runVars, exitStatus>>

\* handleUpdateAlias: alias.Find, decode, the name of the URL put into the body
handleUpdateAlias_Find ==
    /\ pc = "Idle"
    /\ \E name \in UrlNames, body \in Bodies :
          IF name = <<>>
          THEN /\ pc' = "Idle"
               /\ req' = Done("handleUpdateAlias", 400, "required")
          ELSE IF ~FindAlias(cfg, aliases, name).found
          THEN /\ pc' = "Idle"
               /\ req' = Done("handleUpdateAlias", 404, "not found")
          ELSE IF body.Command = <<>>
          THEN /\ pc' = "Idle"
               /\ req' = Done("handleUpdateAlias", 400, "required")
          ELSE /\ pc' = "UpdateApply"
               /\ req' = [NoRequest EXCEPT !.op = "handleUpdateAlias", !.name = name,
                                           !.body = [body EXCEPT !.Name = name]]
    /\ UNCHANGED <<aliases, disk, saveFailures, before, runVars, exitStatus>>

\* handleUpdateAlias: alias.Update and the response
handleUpdateAlias_Update ==
    /\ pc = "UpdateApply"
    /\ \E saved \in SaveOutcomes :
          LET r == UpdateAlias(aliases, req.body)
              e == WriterError(r, saved)
          IN  /\ Write(r, saved)
              /\ req' = Done("handleUpdateAlias", IF e = "" THEN 200 ELSE 500, e)
    /\ pc' = "Idle"
    /\ UNCHANGED <<before, runVars, exitStatus>>

\* handleDeleteAlias: alias.Find
handleDeleteAlias_Find ==
    /\ pc = "Idle"
    /\ \E name \in UrlNames :
          IF name = <<>>
          THEN /\ pc' = "Idle"
               /\ req' = Done("handleDeleteAlias", 400, "required")
          ELSE IF ~FindAlias(cfg, aliases, name).found
          THEN /\ pc' = "Idle"
               /\ req' = Done("handleDeleteAlias", 404, "not found")
          ELSE /\ pc' = "DeleteApply"
               /\ req' = [NoRequest EXCEPT !.op = "handleDeleteAlias", !.name = name]
    /\ UNCHANGED <<aliases, disk, saveFailures, before, runVars, exitStatus>>

\* handleDeleteAlias: alias.Remove and the response
handleDeleteAlias_Remove ==
    /\ pc = "DeleteApply"
    /\ \E saved \in SaveOutcomes :
          LET r == RemoveAlias(aliases, req.name)
              e == WriterError(r, saved)
          IN  /\ Write(r, saved)
              /\ req' = Done("handleDeleteAlias", IF e = "" THEN 200 ELSE 500, e)
    /\ pc' = "Idle"
    /\ UNCHANGED <<before, runVars, exitStatus>>

\* the names of the map `existing` that both imports build from alias.GetAll
ExistingNames(list) == {GetAllAliases(list)[i].Name : i \in 1..Len(list)}

\* handleImportConfig: parse the upload, alias.GetAll, build `existing`
handleImportConfig_GetAll ==
    /\ pc = "Idle"
    /\ \E file \in ImportFiles :
          req' = [NoRequest EXCEPT !.op = "handleImportConfig", !.file = file, !.idx = 1,
                                  !.existing = ExistingNames(aliases)]
    /\ pc' = "Importing"
    /\ UNCHANGED <<aliases, disk, saveFailures, before, runVars, exitStatus>>

\* variant: the merge loop puts the imported alias in place of an existing one
handleImportConfig_Loop_Overwrite ==
    /\ pc = "Importing"
    /\ req.idx <= Len(req.file)
    /\ Len(aliases) < MaxAliases
    /\ \E saved \in SaveOutcomes :
          LET r == IF req.file[req.idx].Name \in req.existing
                   THEN UpdateAlias(aliases, req.file[req.idx])
                   ELSE AddAlias(aliases, req.file[req.idx])
              e == WriterError(r, saved)
          IN  /\ Write(r, saved)
              /\ req' = [req EXCEPT !.idx = @ + 1,
                                    !.added = IF e = "" THEN @ + 1 ELSE @,
                                    !.skipped = IF e = "" THEN @ ELSE @ + 1]
    /\ UNCHANGED <<pc, before, runVars, exitStatus>>

\* handleImportConfig: one iteration of the merge loop
handleImportConfig_Loop ==
    /\ pc = "Importing"
    /\ req.idx <= Len(req.file)
    /\ Len(aliases) < MaxAliases
    /\ IF req.file[req.idx].Name \in req.existing
       THEN /\ req' = [req EXCEPT !.idx = @ + 1, !.skipped = @ + 1]
            /\ UNCHANGED <<aliases, disk, saveFailures>>
       ELSE \E saved \in SaveOutcomes :
              LET r == AddAlias(aliases, req.file[req.idx])
                  e == WriterError(r, saved)
              IN  /\ Write(r, saved)
                  /\ req' = [req EXCEPT !.idx = @ + 1,
                                        !.added = IF e = "" THEN @ + 1 ELSE @,
                                        !.skipped = IF e = "" THEN @ ELSE @ + 1]
    /\ UNCHANGED <<pc, before, runVars, exitStatus>>

\* handleImportConfig: the loop is over, the response is sent
handleImportConfig_Done ==
    /\ pc = "Importing"
    /\ req.idx > Len(req.file)
    /\ req' = Done("handleImportConfig", 200, "")
    /\ pc' = "Idle"
    /\ UNCHANGED <<aliases, disk, saveFailures, before, runVars, exitStatus>>

\* the answers of a promptui.Select with the items No / Yes, and its failures
Answers == {"No", "Yes", "interrupt", "error"}

\* mergeConfig: config.GetAllAliases, build `existing`, count the new aliases
mergeConfig_Count ==
    /\ pc = "Idle"
    /\ \E file \in ImportFiles :
          LET existing == ExistingNames(aliases)
              newCount == Cardinality({i \in 1..Len(file) : file[i].Name \notin existing})
          IN  IF newCount = 0
              THEN /\ req' = Done("mergeConfig", 0, "")
                   /\ pc' = "Idle"
              ELSE /\ req' = [NoRequest EXCEPT !.op = "mergeConfig", !.file = file,
                                               !.idx = 1, !.existing = existing]
                   /\ pc' = "MergeConfirm"
    /\ UNCHANGED <<aliases, disk, saveFailures, before, runVars, exitStatus>>

\* mergeConfig: the confirmation prompt
mergeConfig_Confirm ==
    /\ pc = "MergeConfirm"
    /\ \E answer \in Answers :
          IF answer = "Yes"
          THEN /\ req' = [req EXCEPT !.answer = answer]
               /\ pc' = "Merging"
          ELSE /\ req' = Done("mergeConfig", IF answer = "error" THEN 1 ELSE 0,
                              IF answer = "error" THEN "prompt failed" ELSE "")
               /\ pc' = "Idle"
    /\ UNCHANGED <<aliases, disk, saveFailures, before, runVars, exitStatus>>

\* mergeConfig: one iteration of the loop that adds the new aliases
mergeConfig_Loop ==
    /\ pc = "Merging"
    /\ req.idx <= Len(req.file)
    /\ Len(aliases) < MaxAliases
    /\ IF req.file[req.idx].Name \in req.existing
       THEN /\ req' = [req EXCEPT !.idx = @ + 1]
            /\ UNCHANGED <<aliases, disk, saveFailures>>
       ELSE \E saved \in SaveOutcomes :
              LET r == AddAlias(aliases, req.file[req.idx])
                  e == WriterError(r, saved)
              IN  /\ Write(r, saved)
                  /\ req' = [req EXCEPT !.idx = @ + 1,
                                        !.added = IF e = "" THEN @ + 1 ELSE @]
    /\ UNCHANGED <<pc, before, runVars, exitStatus>>

\* mergeConfig: the loop is over, the number of added aliases is printed
mergeConfig_Done ==
    /\ pc = "Merging"
    /\ req.idx > Len(req.file)
    /\ req' = Done("mergeConfig", 0, "")
    /\ pc' = "Idle"
    /\ UNCHANGED <<aliases, disk, saveFailures, before, runVars, exitStatus>>

NextStore ==
    \/ CallAddAlias
    \/ CallUpdateAlias
    \/ CallRemoveAlias
    \/ handleCreateAlias_Find
    \/ handleCreateAlias_Add
    \/ handleUpdateAlias_Find
    \/ handleUpdateAlias_Update
    \/ handleDeleteAlias_Find
    \/ handleDeleteAlias_Remove
    \/ handleImportConfig_GetAll
    \/ handleImportConfig_Loop
    \/ handleImportConfig_Done
    \/ mergeConfig_Count
    \/ mergeConfig_Confirm
    \/ mergeConfig_Loop
    \/ mergeConfig_Done

SpecStore == InitStore /\ [][NextStore]_vars

----------------------------------------------------------------------------
(* SpecRemove: one `al remove <name>` process, from Load to its exit *)

\* the lists that Load may find in the file
Stores == {l \in SeqsUpTo(StoreEntries, Cardinality(StoreNames)) : Distinct(l)}

LoadFailed == [err |-> TRUE, Shell |-> "", Verbose |-> FALSE]

InitRemove ==
    /\ pc = "Idle"
    /\ disk \in Stores
    /\ cfg \in {NoCfg, LoadFailed}
    /\ aliases = IF cfg.err THEN <<>> ELSE disk
    /\ \E name \in StoreNames : req = [NoRequest EXCEPT !.op = "runRemoveCmd", !.name = name]
    /\ before = Snapshot(aliases, disk)
    /\ saveFailures = 0
    /\ NoLock
    /\ NoCopy
    /\ exitStatus = NotExited
    /\ NoInvocation

\* variant: the index of the first item counts as the confirmation
confirmDelete_FirstItem(answer) ==
    [confirmed |-> answer = "No", err |-> answer \in {"interrupt", "error"}]

\* confirmDelete: (idx == 1, nil) for a selection, (false, err) otherwise
confirmDelete(answer) ==
    [confirmed |-> answer = "Yes", err |-> answer \in {"interrupt", "error"}]

\* runRemoveCmd: alias.Find; an unknown name ends the command with status 1
runRemoveCmd_Find ==
    /\ pc = "Idle"
    /\ IF FindAlias(cfg, aliases, req.name).found
       THEN /\ pc' = "Confirm"
            /\ UNCHANGED <<req, exitStatus>>
       ELSE /\ pc' = "Terminated"
            /\ req' = [req EXCEPT !.err = "not found"]
            /\ exitStatus' = Exited(1)
    /\ UNCHANGED <<aliases, disk, saveFailures, before, runVars>>

\* runRemoveCmd: the prompt; anything but a confirmation ends the command
runRemoveCmd_Confirm ==
    /\ pc = "Confirm"
    /\ \E answer \in Answers :
          LET c == confirmDelete(answer)
          IN  IF c.err
              THEN /\ pc' = "Terminated"
                   /\ req' = [req EXCEPT !.answer = answer, !.err = "prompt"]
                   /\ exitStatus' = Exited(0)
              ELSE IF ~c.confirmed
              THEN /\ pc' = "Terminated"
                   /\ req' = [req EXCEPT !.answer = answer, !.err = "cancelled"]
                   /\ exitStatus' = Exited(0)
              ELSE /\ pc' = "Removing"
                   /\ req' = [req EXCEPT !.answer = answer]
                   /\ UNCHANGED exitStatus
    /\ UNCHANGED <<aliases, disk, saveFailures, before, runVars>>

\* runRemoveCmd: alias.Remove, then the exit
runRemoveCmd_Remove ==
    /\ pc = "Removing"
    /\ \E saved \in SaveOutcomes :
          LET r == RemoveAlias(aliases, req.name)
              e == WriterError(r, saved)
          IN  /\ Write(r, saved)
              /\ req' = [req EXCEPT !.err = e]
              /\ exitStatus' = Exited(IF e = "" THEN 0 ELSE 1)
    /\ pc' = "Terminated"
    /\ UNCHANGED <<before, runVars>>

NextRemove ==
    \/ runRemoveCmd_Find
    \/ runRemoveCmd_Confirm
    \/ runRemoveCmd_Remove

SpecRemove == InitRemove /\ [][NextRemove]_vars

----------------------------------------------------------------------------
(* SpecDir: GetConfigDir in every environment.  A path is the sequence of   *)
(* the elements that filepath.Join was given, the empty ones left out.      *)

\* filepath.Join: empty elements are ignored
Join(elems) == SelectSeq(elems, LAMBDA e : e # "")

\* os.UserHomeDir: %USERPROFILE% on Windows and $HOME elsewhere; an error
\* when the variable is empty
UserHomeDir(e) ==
    LET dir == IF e.GOOS = "windows" THEN e.USERPROFILE ELSE e.HOME
    IN  [dir |-> dir, err |-> dir = ""]

GetConfigDir(e) ==
    IF e.ALIASLY_CONFIG_DIR # "" THEN <<e.ALIASLY_CONFIG_DIR>>
    ELSE IF UserHomeDir(e).err THEN <<".">>
    ELSE IF e.XDG_CONFIG_HOME # "" THEN Join(<<e.XDG_CONFIG_HOME, "aliasly">>)
    ELSE Join(<<UserHomeDir(e).dir, ".config", "aliasly">>)

DirEnvs ==
    [ALIASLY_CONFIG_DIR : {"", "/custom", "relative"},
     XDG_CONFIG_HOME : {"", "/xdg"},
     HOME : {"", "/home/u"},
     USERPROFILE : {"", "C:/Users/u"},
     GOOS : {"linux", "darwin", "windows"}]

InitDir ==
    /\ pc = "Idle"
    /\ env \in DirEnvs
    /\ configDir = <<>>
    /\ aliases = <<>>
    /\ disk = <<>>
    /\ req = NoRequest
    /\ before = NoSnapshot
    /\ saveFailures = 0
    /\ NoLock
    /\ NoCopy
    /\ cfg = NoCfg
    /\ exitStatus = NotExited
    /\ NoRun

GetConfigDirCall ==
    /\ pc = "Idle"
    /\ configDir' = GetConfigDir(env)
    /\ pc' = "Returned"
    /\ UNCHANGED <<caller, aliases, keyword, a, args, opts, cfg, env, command, perr, bound,
                   names, child, childStatus, argv, launches, stdout, ret, exitStatus,
                   flagVerbose, log, disk, req, before, saveFailures, lockVars, copyVars>>

NextDir == GetConfigDirCall

SpecDir == InitDir /\ [][NextDir]_vars

----------------------------------------------------------------------------
(* SpecLoad: goroutines that call the store operations on a store that is   *)
(* not loaded yet.  An operation is Lock, ensureLoaded, its body and the    *)
(* deferred Unlock, each one step, so that two operations could overlap if  *)
(* the mutex let them.                                                      *)

MaxGoroutines == 3

Goroutines == 1..MaxGoroutines

StoreOps == {"Get", "FindAlias", "GetAllAliases", "AddAlias", "UpdateAlias", "RemoveAlias"}

\* createDefaultConfig().Aliases, as entries of the store
createDefaultConfig ==
    [i \in 1..Len(DefaultAliases) |->
        [Name |-> DefaultAliases[i].Name, Command |-> DefaultAliases[i].Command,
         Description |-> <<"d">>, Params |-> DefaultAliases[i].Params]]

FileStates == {"absent", "valid", "unreadable", "corrupt"}

InitLoad ==
    /\ pc = "Idle"
    /\ loaded = FALSE
    /\ configMutex = 0
    /\ goroutines \in [Goroutines -> [op : StoreOps, pc : {"start"}, result : {""}]]
    /\ loads = 0
    /\ fileState \in FileStates
    /\ NoCopy
    /\ aliases = <<>>
    /\ disk = IF fileState = "valid" THEN InitialStore ELSE <<>>
    /\ req = NoRequest
    /\ before = NoSnapshot
    /\ saveFailures = 0
    /\ cfg = NoCfg
    /\ exitStatus = NotExited
    /\ NoInvocation

\* what a step of a goroutine leaves alone besides the store
loadFrame == <<pc, caller, keyword, a, args, opts, cfg, env, command, perr, bound, names,
               child, childStatus, argv, launches, stdout, ret, exitStatus, flagVerbose,
               log, req, before, configDir, copyVars>>

At(g, position) == goroutines[g].pc = position

Goto(g, position, result) ==
    goroutines' = [goroutines EXCEPT ![g].pc = position, ![g].result = result]

\* variant: the operations do not take the mutex
Lock_NoMutex(g) ==
    /\ At(g, "start")
    /\ configMutex' = g
    /\ Goto(g, "ensureLoaded", "")
    /\ UNCHANGED <<loadFrame, aliases, disk, saveFailures, loaded, loads, fileState>>

\* configMutex.Lock(): blocks while another goroutine holds the mutex
Lock(g) ==
    /\ At(g, "start")
    /\ configMutex = 0
    /\ configMutex' = g
    /\ Goto(g, "ensureLoaded", "")
    /\ UNCHANGED <<loadFrame, aliases, disk, saveFailures, loaded, loads, fileState>>

\* ensureLoaded: `if !loaded { return loadInternal() }`
ensureLoaded(g) ==
    /\ At(g, "ensureLoaded")
    /\ Goto(g, IF loaded THEN "body" ELSE "loadInternal", "")
    /\ UNCHANGED <<loadFrame, aliases, disk, saveFailures, loaded, configMutex, loads,
                   fileState>>

\* loadInternal: EnsureConfigDir may fail; an absent file gives the default
\* configuration, which is saved; an unreadable file and a file that does
\* not parse are errors, the latter after globalConfig was set to &Config{}
loadInternal(g) ==
    /\ At(g, "loadInternal")
    /\ \E mkdir \in BOOLEAN, saved \in SaveOutcomes :
          IF ~mkdir
          THEN /\ Goto(g, "return", "load error")
               /\ UNCHANGED <<aliases, disk, saveFailures, loaded, loads, fileState>>
          ELSE IF fileState = "absent"
          THEN /\ aliases' = createDefaultConfig
               /\ loaded' = TRUE
               /\ loads' = loads + 1
               /\ disk' = IF saved THEN createDefaultConfig ELSE disk
               /\ fileState' = IF saved THEN "valid" ELSE fileState
               /\ saveFailures' = IF saved THEN saveFailures ELSE saveFailures + 1
               /\ IF saved THEN Goto(g, "body", "") ELSE Goto(g, "return", "load error")
          ELSE IF fileState = "unreadable"
          THEN /\ Goto(g, "return", "load error")
               /\ UNCHANGED <<aliases, disk, saveFailures, loaded, loads, fileState>>
          ELSE IF fileState = "corrupt"
          THEN /\ aliases' = <<>>
               /\ Goto(g, "return", "load error")
               /\ UNCHANGED <<disk, saveFailures, loaded, loads, fileState>>
          ELSE /\ aliases' = disk
               /\ loaded' = TRUE
               /\ loads' = loads + 1
               /\ Goto(g, "body", "")
               /\ UNCHANGED <<disk, saveFailures, fileState>>
    /\ UNCHANGED <<loadFrame, configMutex>>

\* the body of a reader: Get, FindAlias(gs), GetAllAliases
Read(g) ==
    /\ At(g, "body")
    /\ goroutines[g].op \in {"Get", "FindAlias", "GetAllAliases"}
    /\ Goto(g, "return",
            IF goroutines[g].op = "FindAlias" /\ ~HasName(aliases, Gs) THEN "not found"
            ELSE "ok")
    /\ UNCHANGED <<loadFrame, aliases, disk, saveFailures, loaded, configMutex, loads,
                   fileState>>

\* the body of a writer: AddAlias(zz), UpdateAlias(gs), RemoveAlias(gc)
Mutate(g) ==
    /\ At(g, "body")
    /\ goroutines[g].op \in {"AddAlias", "UpdateAlias", "RemoveAlias"}
    /\ \E saved \in SaveOutcomes :
          LET r == CASE goroutines[g].op = "AddAlias" -> AddAlias(aliases, Plain(Zz))
                     [] goroutines[g].op = "UpdateAlias" -> UpdateAlias(aliases, Rich(Gs))
                     [] goroutines[g].op = "RemoveAlias" -> RemoveAlias(aliases, Gc)
              e == WriterError(r, saved)
          IN  /\ Write(r, saved)
              /\ fileState' = IF r.err = "" /\ saved THEN "valid" ELSE fileState
              /\ Goto(g, "return", IF e = "" THEN "ok" ELSE e)
    /\ UNCHANGED <<loadFrame, loaded, configMutex, loads>>

\* the deferred configMutex.Unlock()
Unlock(g) ==
    /\ At(g, "return")
    /\ configMutex' = 0
    /\ goroutines' = [goroutines EXCEPT ![g].pc = "done"]
    /\ UNCHANGED <<loadFrame, aliases, disk, saveFailures, loaded, loads, fileState>>

NextLoad ==
    \E g \in Goroutines :
        \/ Lock(g)
        \/ ensureLoaded(g)
        \/ loadInternal(g)
        \/ Read(g)
        \/ Mutate(g)
        \/ Unlock(g)

SpecLoad == InitLoad /\ [][NextLoad]_vars

----------------------------------------------------------------------------
(* SpecWriter: one call of AddAlias, UpdateAlias or RemoveAlias on every    *)
(* small alias list, lists with a repeated name included, the file holding  *)
(* that list or an older one.                                               *)

AnyStores == SeqsUpTo(StoreEntries, Cardinality(StoreNames))

InitWriter ==
    /\ pc = "Idle"
    /\ aliases \in AnyStores
    /\ disk \in {aliases, InitialStore}
    /\ req = NoRequest
    /\ before = Snapshot(aliases, disk)
    /\ saveFailures = 0
    /\ NoLock
    /\ NoCopy
    /\ cfg = NoCfg
    /\ exitStatus = NotExited
    /\ NoInvocation

\* the call has returned: what was called, with what, and the error
Returned(op, name, body, err) ==
    /\ req' = [NoRequest EXCEPT !.op = op, !.name = name, !.body = body, !.err = err]
    /\ pc' = "Returned"
    /\ UNCHANGED <<before, runVars, exitStatus>>

AddAliasCall ==
    /\ pc = "Idle"
    /\ \E al \in StoreEntries, saved \in SaveOutcomes :
          LET r == AddAlias(aliases, al)
          IN  Write(r, saved) /\ Returned("AddAlias", al.Name, al, WriterError(r, saved))

UpdateAliasCall ==
    /\ pc = "Idle"
    /\ \E al \in StoreEntries, saved \in SaveOutcomes :
          LET r == UpdateAlias(aliases, al)
          IN  Write(r, saved) /\ Returned("UpdateAlias", al.Name, al, WriterError(r, saved))

RemoveAliasCall ==
    /\ pc = "Idle"
    /\ \E name \in StoreNames, saved \in SaveOutcomes :
          LET r == RemoveAlias(aliases, name)
          IN  Write(r, saved) /\ Returned("RemoveAlias", name, NoEntry, WriterError(r, saved))

NextWriter ==
    \/ AddAliasCall
    \/ UpdateAliasCall
    \/ RemoveAliasCall

SpecWriter == InitWriter /\ [][NextWriter]_vars

----------------------------------------------------------------------------
(* SpecCopy: a caller of GetAllAliases and what it does to the slice it got. *)
(* An Alias is a struct whose Params field is a slice, that is a reference   *)
(* to a backing array: here the address of the array in `heap`, 0 for nil.   *)

\* the i-th default alias as it is held in memory
StoredAlias(i) == [createDefaultConfig[i] EXCEPT !.Params = i - 1]

\* the backing arrays of the Params of gc and gp
DefaultHeap == [p \in 1..2 |-> createDefaultConfig[p + 1].Params]

CopyStores ==
    {<<StoredAlias(1), StoredAlias(2), StoredAlias(3)>>,
     <<StoredAlias(3), StoredAlias(1)>>,
     <<StoredAlias(2)>>}

\* the aliases of a list with the contents of their Params
Deref(list, h) ==
    [i \in 1..Len(list) |->
        [list[i] EXCEPT !.Params = IF list[i].Params = 0 THEN <<>> ELSE h[list[i].Params]]]

InitCopy ==
    /\ pc = "Idle"
    /\ aliases \in CopyStores
    /\ heap = DefaultHeap
    /\ returned = <<>>
    /\ disk = Deref(aliases, heap)
    /\ before = Snapshot(Deref(aliases, heap), disk)
    /\ req = NoRequest
    /\ saveFailures = 0
    /\ NoLock
    /\ cfg = NoCfg
    /\ exitStatus = NotExited
    /\ NoInvocation

copyFrame == <<aliases, disk, before, req, saveFailures, lockVars, cfg, exitStatus, caller,
               keyword, a, args, opts, env, command, perr, bound, names, child, childStatus,
               argv, launches, stdout, ret, flagVerbose, log, configDir>>

\* GetAllAliases: make([]Alias, len) and copy(): every Alias struct is copied
\* by value, its Params slice header with it, so the arrays are shared
GetAllAliasesCall ==
    /\ pc = "Idle"
    /\ returned' = aliases
    /\ pc' = "Held"
    /\ UNCHANGED <<copyFrame, heap>>

\* the caller puts another alias at an index of its slice
ReplaceElement ==
    /\ pc = "Held"
    /\ \E i \in 1..Len(returned) :
          returned' = [returned EXCEPT ![i] = [Plain(Zz) EXCEPT !.Params = 0]]
    /\ UNCHANGED <<copyFrame, heap, pc>>

\* the caller assigns to a field of an alias of its slice
ModifyField ==
    /\ pc = "Held"
    /\ \E i \in 1..Len(returned) :
          \/ returned' = [returned EXCEPT ![i].Name = Zz]
          \/ returned' = [returned EXCEPT ![i].Command = Echo]
          \/ returned' = [returned EXCEPT ![i].Params = 0]
    /\ UNCHANGED <<copyFrame, heap, pc>>

\* the caller assigns to an entry of the Params of an alias of its slice
ModifyParam ==
    /\ pc = "Held"
    /\ \E i \in 1..Len(returned) :
          /\ returned[i].Params # 0
          /\ \E k \in 1..Len(heap[returned[i].Params]) :
                \/ heap' = [heap EXCEPT ![returned[i].Params][k].Name = X]
                \/ heap' = [heap EXCEPT ![returned[i].Params][k].Required = ~@]
                \/ heap' = [heap EXCEPT ![returned[i].Params][k].Default = <<"d">>]
    /\ UNCHANGED <<copyFrame, returned, pc>>

NextCopy ==
    \/ GetAllAliasesCall
    \/ ReplaceElement
    \/ ModifyField
    \/ ModifyParam

SpecCopy == InitCopy /\ [][NextCopy]_vars

----------------------------------------------------------------------------
(* SpecCreate: POST /api/aliases requests served concurrently, each in its  *)
(* own goroutine of net/http.  alias.Find and alias.Add are each one step   *)
(* under configMutex; nothing holds the mutex between the two.              *)

\* decoded bodies: two contents for the new name zz, and one without a name
CreateBodies == {Plain(Zz), [Rich(Gs) EXCEPT !.Name = Zz], Plain(<<>>)}

InitCreate ==
    /\ pc = "Idle"
    /\ aliases = InitialStore
    /\ disk = InitialStore
    /\ loaded = TRUE
    /\ configMutex = 0
    /\ loads = 1
    /\ fileState = "valid"
    /\ goroutines \in [Goroutines -> [op : {"handleCreateAlias"}, pc : {"start"},
                                      result : {""}, body : CreateBodies, status : {0}]]
    /\ NoCopy
    /\ req = NoRequest
    /\ before = NoSnapshot
    /\ saveFailures = 0
    /\ cfg = NoCfg
    /\ exitStatus = NotExited
    /\ NoInvocation

\* the response of the handler of goroutine g
Respond(g, status, err) ==
    goroutines' = [goroutines EXCEPT ![g].pc = "done", ![g].status = status,
                                     ![g].result = err]

\* handleCreateAlias: decode, validate, alias.Find
createFind(g) ==
    /\ At(g, "start")
    /\ LET body == goroutines[g].body
       IN  IF body.Name = <<>> \/ body.Command = <<>>
           THEN Respond(g, 400, "required")
           ELSE IF FindAlias(cfg, aliases, body.Name).found
           THEN Respond(g, 409, "already exists")
           ELSE Goto(g, "Add", "")
    /\ UNCHANGED <<loadFrame, aliases, disk, saveFailures, loaded, configMutex, loads,
                   fileState>>

\* handleCreateAlias: alias.Add and the response
createAdd(g) ==
    /\ At(g, "Add")
    /\ \E saved \in SaveOutcomes :
          LET r == AddAlias(aliases, goroutines[g].body)
              e == WriterError(r, saved)
          IN  /\ Write(r, saved)
              /\ Respond(g, IF e = "" THEN 201 ELSE 500, e)
    /\ UNCHANGED <<loadFrame, loaded, configMutex, loads, fileState>>

NextCreate ==
    \E g \in Goroutines :
        \/ createFind(g)
        \/ createAdd(g)

SpecCreate == InitCreate /\ [][NextCreate]_vars

----------------------------------------------------------------------------
(* SpecNested: ParseCommand and ValidatePlaceholders on templates with      *)
(* braces next to and around their placeholders                             *)

Open == <<"{", "{">>
Close == <<"}", "}">>

NestedPieces == {Open, Close, <<"{">>, Y, Token(X), Token(Y)}

NestedTemplates == {Concat(ps) : ps \in SeqsUpTo(NestedPieces, MaxPieces + 1)}

NestedParams == [Name : {X, Y}, Required : BOOLEAN, Default : {<<>>}]

\* values: empty, an identifier, and one with a single brace
NestedValues == {<<>>, Y, <<"{", "y">>}

InitNested ==
    /\ pc = "Idle"
    /\ a \in [Name : {<<>>}, Command : NestedTemplates,
              Params : SeqsUpTo(NestedParams, MaxParams)]
    /\ args \in SeqsUpTo(NestedValues, MaxArgs)
    /\ command = <<>>
    /\ perr = NoError
    /\ bound = <<>>
    /\ names = <<>>
    /\ Unused

\* ValidatePlaceholders on the alias that was expanded
Validate ==
    /\ pc = "Parsed"
    /\ names' = ValidatePlaceholders(a)
    /\ pc' = "Validated"
    /\ UNCHANGED <<otherVars, caller, aliases, keyword, a, args, opts, cfg, env, command, perr,
                   bound, child, childStatus, argv, launches, stdout, ret, exitStatus>>

NextNested ==
    \/ Parse
    \/ Validate

SpecNested == InitNested /\ [][NextNested]_vars

----------------------------------------------------------------------------
(* SpecAdd: one `al add` command: the prompts, promptParams, alias.Add *)

\* the commands typed at the prompt: one to two pieces, never empty
AddCommands == PieceTemplates(MaxPieces) \ {<<>>}

InitAdd ==
    /\ pc = "Idle"
    /\ aliases = InitialStore
    /\ disk = InitialStore
    /\ req = NoRequest
    /\ before = NoSnapshot
    /\ saveFailures = 0
    /\ NoLock
    /\ NoCopy
    /\ cfg = NoCfg
    /\ exitStatus = NotExited
    /\ NoInvocation

addFrame == <<caller, keyword, a, args, opts, cfg, env, command, perr, bound, child,
              childStatus, argv, launches, stdout, ret, flagVerbose, log, configDir,
              lockVars, copyVars, before>>

\* runAddCmd: the prompts for name, command and description, then
\* promptParams up to its loop: ExtractPlaceholders of the command
runAddCmd_Prompts ==
    /\ pc = "Idle"
    /\ \E cmd \in AddCommands, interrupted \in BOOLEAN :
          IF interrupted
          THEN /\ req' = [NoRequest EXCEPT !.op = "runAddCmd", !.err = "prompt"]
               /\ pc' = "Terminated"
               /\ exitStatus' = Exited(0)
               /\ UNCHANGED names
          ELSE /\ req' = [NoRequest EXCEPT !.op = "runAddCmd", !.idx = 1,
                                           !.body = [Plain(Zz) EXCEPT !.Command = cmd]]
               /\ names' = ExtractPlaceholders(cmd)
               /\ pc' = IF ExtractPlaceholders(cmd) = <<>> THEN "Adding" ELSE "ParamDetails"
               /\ UNCHANGED exitStatus
    /\ UNCHANGED <<addFrame, aliases, disk, saveFailures>>

\* promptParams: one iteration of the loop over the placeholders, with
\* promptParamDetails asking whether it is required and for a default
promptParamDetails ==
    /\ pc = "ParamDetails"
    /\ \E answer \in {"Yes", "No", "interrupt"}, default \in Defaults :
          IF answer = "interrupt"
          THEN /\ req' = [req EXCEPT !.err = "prompt"]
               /\ pc' = "Terminated"
               /\ exitStatus' = Exited(0)
          ELSE /\ req' = [req EXCEPT
                             !.idx = @ + 1,
                             !.body.Params = Append(@,
                                 [Name |-> names[req.idx], Required |-> answer = "Yes",
                                  Default |-> IF answer = "Yes" THEN <<>> ELSE default])]
               /\ pc' = IF req.idx = Len(names) THEN "Adding" ELSE "ParamDetails"
               /\ UNCHANGED exitStatus
    /\ UNCHANGED <<addFrame, names, aliases, disk, saveFailures>>

\* runAddCmd: alias.Add of the alias that was built, then the exit
runAddCmd_Add ==
    /\ pc = "Adding"
    /\ \E saved \in SaveOutcomes :
          LET r == AddAlias(aliases, req.body)
              e == WriterError(r, saved)
          IN  /\ Write(r, saved)
              /\ req' = [req EXCEPT !.err = e]
              /\ exitStatus' = Exited(IF e = "" THEN 0 ELSE 1)
    /\ pc' = "Terminated"
    /\ UNCHANGED <<addFrame, names>>

NextAdd ==
    \/ runAddCmd_Prompts
    \/ promptParamDetails
    \/ runAddCmd_Add

SpecAdd == InitAdd /\ [][NextAdd]_vars

----------------------------------------------------------------------------
(* SpecImport: POST /api/config/import requests one after the other, and no *)
(* other request.  The names of the list are distinct, so the list had as   *)
(* many aliases as `existing` has names when the import in progress began.  *)

InitImport ==
    /\ pc = "Idle"
    /\ aliases \in {l \in Stores : Len(l) + 2 <= MaxAliases}
    /\ disk = aliases
    /\ req = NoRequest
    /\ before = NoSnapshot
    /\ saveFailures = 0
    /\ NoLock
    /\ NoCopy
    /\ cfg = NoCfg
    /\ exitStatus = NotExited
    /\ NoInvocation

NextImport ==
    \/ handleImportConfig_GetAll
    \/ handleImportConfig_Loop
    \/ handleImportConfig_Done

SpecImport == InitImport /\ [][NextImport]_vars

----------------------------------------------------------------------------
(* Properties *)

Range(f) == {f[i] : i \in DOMAIN f}

Parsed == pc = "Parsed"
ParsedOk == pc = "Parsed" /\ perr = NoError

\* the value the i-th declared parameter receives by position
Positional(i) == IF i <= Len(args) THEN args[i] ELSE a.Params[i].Default

\* the declared required parameters that have no positional argument
Unmet == {i \in 1..Len(a.Params) : a.Params[i].Required /\ i > Len(args)}

\* C1: whenever ParseCommand succeeds, for every index below both lengths the
\* value substituted for the i-th declared parameter is the i-th argument,
\* whatever the parameter names are (two parameters may carry the same name).
C1_PositionalBinding ==
    ParsedOk =>
        \A i \in 1..Min(Len(a.Params), Len(args)) : bound[i] = args[i]

\* C2: ParseCommand succeeds exactly when every required parameter sits at an
\* index that has a positional argument; otherwise it returns the empty command
\* and a ParseError naming the first required parameter without one.
C2_RequiredByPosition ==
    Parsed =>
        IF Unmet = {}
        THEN perr = NoError
        ELSE /\ command = <<>>
             /\ perr = ParseError(a.Params[CHOOSE i \in Unmet : \A j \in Unmet : i <= j].Name)

\* C3: on success an optional parameter at index i is substituted by its
\* Default when there is no argument at i and by the argument at i otherwise,
\* the empty argument included.
C3_OptionalValue ==
    ParsedOk =>
        \A i \in 1..Len(a.Params) :
            ~a.Params[i].Required => bound[i] = Positional(i)

\* C4: with more arguments than declared parameters ParseCommand returns the
\* command and the error it returns for the argument list cut to the number
\* of declared parameters.
C4_ExtraArgsIgnored ==
    (Parsed /\ Len(args) > Len(a.Params)) =>
        LET r == ParseCommand(a, SubSeq(args, 1, Len(a.Params)))
        IN  command = r.command /\ perr = r.err

C4_Witness ==
    /\ ParsedOk
    /\ Len(args) > Len(a.Params)
    /\ Len(a.Params) >= 1
    /\ command # a.Command

\* a substring of s from p to e that matches {{ + word characters + }}
IsMatch(s, p, e) ==
    /\ p + 5 <= e + 1
    /\ e <= Len(s)
    /\ s[p] = "{" /\ s[p + 1] = "{"
    /\ s[e - 1] = "}" /\ s[e] = "}"
    /\ \A j \in (p + 2)..(e - 2) : IsWordChar(s[j])

\* the identifiers of the leftmost non-overlapping matches from position `from`
RECURSIVE LeftmostMatches(_, _)
LeftmostMatches(s, from) ==
    LET starts == {p \in from..Len(s) : \E e \in p..Len(s) : IsMatch(s, p, e)}
    IN  IF starts = {} THEN <<>>
        ELSE LET p == CHOOSE q \in starts : \A r \in starts : q <= r
                 e == CHOOSE f \in p..Len(s) : IsMatch(s, p, f)
             IN  <<SubSeq(s, p + 2, e - 2)>> \o LeftmostMatches(s, e + 1)

\* C5: ExtractPlaceholders returns the identifiers of the non-overlapping
\* matches of {{ + one or more word characters + }} from left to right, one
\* entry per occurrence, and the empty sequence when there is none.
C5_ScanOrder ==
    pc = "Scanned" => names = LeftmostMatches(a.Command, 1)

C5_Witness ==
    /\ pc = "Scanned"
    /\ Len(names) = 3
    /\ names[1] = names[3]
    /\ names[1] # names[2]

IsIdentifier(name) == name # <<>> /\ \A k \in 1..Len(name) : IsWordChar(name[k])

NoDeclaredPlaceholder ==
    \A i \in 1..Len(a.Params) : a.Params[i].Name \notin Range(ExtractPlaceholders(a.Command))

\* C6 as stated: when no declared parameter name is among the identifiers the
\* scanner finds in the template, a successful ParseCommand returns the
\* template unchanged, for any parameter names.
C6_UnchangedAnyNames ==
    (ParsedOk /\ NoDeclaredPlaceholder) => command = a.Command

\* C6 amended: when every declared parameter name is an identifier (one or
\* more word characters) and none is among the identifiers the scanner finds
\* in the template, a successful ParseCommand returns the template unchanged.
C6_UnchangedIdentifiers ==
    (/\ ParsedOk
     /\ NoDeclaredPlaceholder
     /\ \A i \in 1..Len(a.Params) : IsIdentifier(a.Params[i].Name))
        => command = a.Command

C6_Witness ==
    /\ ParsedOk
    /\ NoDeclaredPlaceholder
    /\ Len(a.Params) = 2
    /\ \A i \in 1..Len(a.Params) : IsIdentifier(a.Params[i].Name)
    /\ Len(args) = 2
    /\ ExtractPlaceholders(a.Command) # <<>>
    /\ command = a.Command

Emitted(kinds) == {i \in 1..Len(stdout) : stdout[i].kind \in kinds}

\* C7: when ParseCommand returns an error, no child process is started or
\* attempted, no expanded command is printed, and Run / RunWithOptions return
\* (-1, the ParseError), with or without DryRun and Verbose.
C7_BindingFailureNoLaunch ==
    perr # NoError =>
        /\ perr.kind = "ParseError"
        /\ launches = 0
        /\ child = "none"
        /\ argv = <<>>
        /\ Emitted({"verbose", "dry-run"}) = {}
        /\ ret = [code |-> -1, err |-> perr]
        /\ pc = "Terminated"

C7_Witness ==
    /\ pc = "Terminated"
    /\ caller = "RunWithOptions"
    /\ opts.DryRun /\ opts.Verbose
    /\ perr = ParseError(Message)
    /\ ret.err = perr

\* C8: when the child was started and exited with status c, Execute returns
\* (c, nil) and the `al` process exits with status c.
C8_ExitStatusVerbatim ==
    (pc = "Terminated" /\ child = "exited") =>
        /\ ret = [code |-> childStatus, err |-> NoError]
        /\ caller = "runRootCmd" => exitStatus = Exited(childStatus)

C8_Witness ==
    /\ pc = "Terminated"
    /\ child = "exited"
    /\ childStatus = 2
    /\ caller = "runRootCmd"
    /\ exitStatus = Exited(2)

\* Execute was called and has returned
ExecuteReturned ==
    /\ pc = "Terminated"
    /\ child \in {"exited", "signaled", "startfailed"} \/ Emitted({"dry-run"}) # {}

\* C9: Execute returns a non-nil error exactly when the child could not be
\* started; a child that started never yields an error, whatever its status.
C9_LaunchFailureDistinct ==
    ExecuteReturned =>
        /\ ret.err # NoError <=> child = "startfailed"
        /\ child = "startfailed" => ret.err = LaunchFailure

C9_Witness ==
    /\ ExecuteReturned
    /\ child = "startfailed"
    /\ ret = [code |-> -1, err |-> LaunchFailure]
    /\ launches = 1

\* C10: the code -1 is returned only together with a non-nil error, so
\* (-1, nil) is never the result for a child that was started, however it
\* terminated.
C10_SentinelOnlyWithError ==
    (pc = "Terminated" /\ ret.code = -1) => ret.err # NoError

DryRunCall == caller = "RunWithOptions" /\ opts.DryRun

\* C11: RunWithOptions with DryRun set never starts nor attempts a child,
\* for every alias, argument list, shell and verbose setting; when the
\* binding succeeds it returns (0, nil) and has printed the dry-run line
\* with the fully expanded command.
C11_DryRunNeverSpawns ==
    DryRunCall =>
        /\ launches = 0
        /\ child = "none"
        /\ argv = <<>>
        /\ (pc = "Terminated" /\ perr = NoError) =>
              /\ ret = [code |-> 0, err |-> NoError]
              /\ \E i \in Emitted({"dry-run"}) :
                    stdout[i].text = ParseCommand(a, args).command

\* Scenario F: the template `echo {{x}}` with x bound to hi
C11_Witness ==
    /\ DryRunCall
    /\ pc = "Terminated"
    /\ a = EchoAlias
    /\ args = <<Hi>>
    /\ ret = [code |-> 0, err |-> NoError]
    /\ launches = 0
    /\ \E i \in Emitted({"dry-run"}) : stdout[i].text = Echo \o Hi

\* C12: when `al` is run with -v / --verbose on an alias that is found and
\* whose binding succeeds, the expanded command has been printed by the time
\* the child is launched, whatever the verbose setting of the configuration.
C12_VerboseFlagPrints ==
    (caller = "runRootCmd" /\ flagVerbose /\ launches > 0) =>
        \E i \in Emitted({"verbose"}) : stdout[i].text = command

NotFoundCall ==
    /\ caller = "runRootCmd"
    /\ keyword # <<>>
    /\ ~FindAlias(cfg, aliases, keyword[1]).found

\* C13: when the lookup of the keyword reports not found, the invocation
\* goes from Idle to Terminated with exit status 1: ParseCommand is never
\* reached (nothing is expanded or bound) and Execute is never reached
\* (nothing is printed or launched).
C13_NotFoundShortCircuits ==
    NotFoundCall =>
        /\ pc \in {"Idle", "Terminated"}
        /\ pc = "Terminated" => exitStatus = Exited(1)
        /\ a = NoAlias /\ command = <<>> /\ bound = <<>> /\ perr = NoError
        /\ launches = 0 /\ child = "none" /\ argv = <<>>
        /\ Emitted({"verbose", "dry-run"}) = {}

C13_Witness ==
    /\ NotFoundCall
    /\ ~cfg.err
    /\ keyword = <<Zz>>
    /\ args = <<FixBug>>
    /\ pc = "Terminated"
    /\ exitStatus = Exited(1)
    /\ Emitted({"not-found"}) # {}

\* Run was called and has returned
RunReturned ==
    /\ pc = "Terminated"
    /\ caller = "Run" \/ (caller = "runRootCmd" /\ a # NoAlias)

\* the terminal outcomes of Run; a child ended by a signal counts as exited,
\* with the code -1 that ExitError.ExitCode() reports for it
Outcome(o) ==
    CASE o = "binding error" ->
             /\ perr # NoError
             /\ ret = [code |-> -1, err |-> perr]
             /\ launches = 0
      [] o = "launch failure" ->
             /\ child = "startfailed"
             /\ ret = [code |-> -1, err |-> LaunchFailure]
             /\ launches = 1
      [] o = "child exited" ->
             /\ child \in {"exited", "signaled"}
             /\ ret.err = NoError
             /\ child = "exited" => ret.code = childStatus
             /\ launches = 1

\* C14: an invocation of Run starts or attempts at most one child, and only
\* with the command of a successful binding; when Run has returned, exactly
\* one of binding error, launch failure and child exited is its outcome, so
\* no launch follows a launch failure or a nonzero exit.
C14_NoRetries ==
    caller \in {"Run", "runRootCmd"} =>
        /\ launches <= 1
        /\ launches = 1 =>
              /\ perr = NoError
              /\ ParseCommand(a, args).err = NoError
              /\ argv.arg = ParseCommand(a, args).command
        /\ RunReturned =>
              Cardinality({o \in {"binding error", "launch failure", "child exited"} :
                              Outcome(o)}) = 1

C14_Witness ==
    /\ RunReturned
    /\ caller = "Run"
    /\ Outcome("child exited")
    /\ childStatus = 3
    /\ ret.code = 3
    /\ launches = 1

\* the expansion of the alias and arguments of the call in progress agrees
\* with every earlier expansion of the same alias with the same arguments
SameAsBefore ==
    \A e \in log :
        (e.alias = a /\ e.args = args) => (e.command = command /\ e.err = perr)

\* C15: no step of ParseCommand, Run or RunWithOptions changes the alias
\* list of the store or the alias it was handed, and a call that has
\* returned has expanded its alias and arguments to the same command and
\* error as every earlier call with that alias and those arguments.
C15_CoreReadOnly ==
    [][ /\ aliases' = aliases
        /\ pc # "Terminated" => a' = a
        /\ pc' = "Terminated" => SameAsBefore' ]_vars

C15_Witness ==
    /\ pc = "Terminated"
    /\ a = EchoAlias
    /\ args = <<Hi>>
    /\ command = Echo \o Hi
    /\ Cardinality(log) = 2
    /\ \E e \in log : e.alias = a /\ e.args = args /\ e.command = command
    /\ \E e \in log : e.alias # a /\ e.err # NoError
    /\ aliases = DefaultAliases

\* C16: the alias names of the list in memory and of the list in the file
\* stay pairwise distinct under every interleaving of AddAlias, UpdateAlias,
\* RemoveAlias, the web create / update / delete handlers and the merge
\* imports, from a store whose names are pairwise distinct.
C16_NamesUnique == Distinct(aliases) /\ Distinct(disk)

\* the handler found the name free, another writer took it, alias.Add refused
C16_Witness ==
    /\ pc = "Idle"
    /\ req.op = "handleCreateAlias"
    /\ req.status = 500
    /\ req.err = "already exists"
    /\ Len(aliases) = 3
    /\ Distinct(aliases)

\* a step of a merge import: only these leave a changed request of an import
ImportStep == req' # req /\ req'.op \in {"mergeConfig", "handleImportConfig"}

\* `new` is `old` with aliases appended whose names were not there before them
AppendsOnly(old, new) ==
    /\ Len(new) >= Len(old)
    /\ SubSeq(new, 1, Len(old)) = old
    /\ \A k \in (Len(old) + 1)..Len(new) : ~HasName(SubSeq(new, 1, k - 1), new[k].Name)

\* C17: every step of a merge import (`al import` without --replace and the
\* web import) leaves each alias of the list where it is, with its command,
\* description and parameters, and at most appends aliases whose names the
\* list did not have; the file is left as it is or made a copy of that list.
C17_MergeNeverReplaces ==
    [][ ImportStep =>
            /\ AppendsOnly(aliases, aliases')
            /\ disk' = disk \/ disk' = aliases' ]_vars

\* the web import of a file with one present and one absent name has finished
C17_Witness ==
    /\ pc = "Importing"
    /\ req.file = <<Rich(Gs), Plain(Zz)>>
    /\ req.idx > Len(req.file)
    /\ req.skipped = 1
    /\ req.added = 1
    /\ aliases = <<Plain(Gs), Plain(Gc), Plain(Zz)>>
    /\ disk = aliases

StoreUnchanged == aliases = before.aliases /\ disk = before.disk

\* C18: `al remove <name>` leaves the list in memory and the file as they
\* were when the name is unknown, when the answer is "No, keep it" and when
\* the prompt is interrupted or fails; only after "Yes, remove it" is the
\* alias gone from the list, and the file is then that list or, when the
\* save failed, what it was.
C18_RemoveOnlyAfterYes ==
    req.op = "runRemoveCmd" =>
        /\ (req.answer # "Yes" \/ pc # "Terminated") => StoreUnchanged
        /\ (pc = "Terminated" /\ req.answer = "Yes") =>
              /\ HasName(before.aliases, req.name)
              /\ aliases = SelectSeq(before.aliases, LAMBDA e : e.Name # req.name)
              /\ disk = aliases \/ disk = before.disk

C18_Witness ==
    /\ req.op = "runRemoveCmd"
    /\ pc = "Terminated"
    /\ req.answer = "Yes"
    /\ Len(before.aliases) = 3
    /\ Len(aliases) = 2
    /\ disk = aliases
    /\ exitStatus = Exited(0)

\* C19: GetConfigDir returns $ALIASLY_CONFIG_DIR when it is not empty,
\* otherwise $XDG_CONFIG_HOME/aliasly whenever XDG_CONFIG_HOME is not empty,
\* otherwise <home>/.config/aliasly, whether or not the home directory can
\* be resolved.
C19_ConfigDirPriority ==
    pc = "Returned" =>
        configDir =
            IF env.ALIASLY_CONFIG_DIR # "" THEN <<env.ALIASLY_CONFIG_DIR>>
            ELSE IF env.XDG_CONFIG_HOME # "" THEN <<env.XDG_CONFIG_HOME, "aliasly">>
            ELSE Join(<<UserHomeDir(env).dir, ".config", "aliasly">>)

PName(i) == Token(a.Params[i].Name)

\* the text after the first k passes, each one literal replacement of the
\* placeholder of parameter k by the value used for it
RECURSIVE TextAfter(_)
TextAfter(k) ==
    IF k = 0 THEN a.Command
    ELSE ReplaceAll(TextAfter(k - 1), PName(k), bound[k])

\* pass i finds its placeholder, so the value of parameter i enters the text
Introduced(i) == Contains(TextAfter(i - 1), PName(i))

DistinctParams ==
    \A i, j \in 1..Len(a.Params) : a.Params[i].Name = a.Params[j].Name => i = j

\* a placeholder of parameter j inside the value of parameter i is replaced
\* by the value of j when j comes later and stays in the command otherwise
Sequential ==
    /\ Len(bound) = Len(a.Params)
    /\ command = TextAfter(Len(a.Params))
    /\ \A i, j \in 1..Len(a.Params) :
          (Introduced(i) /\ Contains(Positional(i), PName(j))) =>
              IF j > i
              THEN /\ Contains(TextAfter(j - 1), PName(j))
                   /\ Contains(TextAfter(j), Positional(j))
                   /\ ~Contains(Positional(j), PName(j)) => ~Contains(TextAfter(j), PName(j))
              ELSE Contains(command, PName(j))

\* C20 as stated: for any declared parameters, ParseCommand makes one pass
\* per parameter in declaration order; a placeholder of parameter j inside
\* the value bound to parameter i is replaced by the value of j when j > i
\* and is left literally in the final command when j <= i.
C20_SequentialAnyNames == ParsedOk => Sequential

\* C20 amended: the same, for declared parameters with pairwise distinct
\* names.
C20_SequentialDistinctNames == (ParsedOk /\ DistinctParams) => Sequential

C20_Witness ==
    /\ ParsedOk
    /\ DistinctParams
    /\ Len(a.Params) = 2
    /\ a.Params[2].Name = Y
    /\ args = <<Token(Y), <<"a">> >>
    /\ Introduced(1)
    /\ ~Contains(a.Command, Token(Y))
    /\ Contains(command, <<"a">>)
    /\ ~Contains(command, Token(Y))

\* the shell the options, the configuration and the environment call for
WantedShell ==
    IF opts.Shell # "" THEN opts.Shell
    ELSE IF ~cfg.err /\ cfg.Shell # "" THEN cfg.Shell
    ELSE IF env.SHELL # "" THEN env.SHELL
    ELSE IF env.GOOS = "windows" THEN "cmd" ELSE "/bin/sh"

\* C21: every child is launched as `<shell> -c <expanded command>`, the
\* expanded command being one single argument, where <shell> is the Shell of
\* the options when it is not empty, otherwise the Shell of the configuration
\* when it loads and sets one, otherwise $SHELL, otherwise the default of the
\* operating system; this on every operating system.
C21_ShellSelection ==
    launches > 0 =>
        argv = [path |-> WantedShell, flag |-> "-c", arg |-> ParseCommand(a, args).command]

InCritical(g) == goroutines[g].pc \in {"ensureLoaded", "loadInternal", "body", "return"}

\* C22: with any number of goroutines calling Get, FindAlias, GetAllAliases,
\* AddAlias, UpdateAlias or RemoveAlias on a store that is not loaded, at most
\* one run of loadInternal succeeds, an operation is in its body (where it
\* reads or writes the alias list) only when the store is loaded, an
\* operation whose load failed returns its error, and at most one operation
\* is between its Lock and its Unlock, the one that holds the mutex.
C22_LazyLoadGuarded ==
    /\ loads <= 1
    /\ loaded <=> loads = 1
    /\ \A g \in DOMAIN goroutines :
          /\ At(g, "body") => loaded
          /\ (goroutines[g].result = "load error") => At(g, "return") \/ At(g, "done")
          /\ InCritical(g) <=> configMutex = g
          /\ \A h \in DOMAIN goroutines : (InCritical(g) /\ InCritical(h)) => g = h

\* three operations have returned after one load from the file: one that
\* wrote, one that read, one that was refused
C22_Witness ==
    /\ DOMAIN goroutines = Goroutines
    /\ \A g \in Goroutines : At(g, "done")
    /\ loads = 1
    /\ \E g, h \in Goroutines :
          /\ goroutines[g].op = "AddAlias" /\ goroutines[g].result = "ok"
          /\ goroutines[h].op = "FindAlias" /\ goroutines[h].result = "ok"
    /\ aliases = Append(InitialStore, Plain(Zz))
    /\ disk = aliases

\* the call that returned was refused: its name was present (AddAlias) or
\* absent (UpdateAlias, RemoveAlias) in the list it was called on
Rejected ==
    /\ pc = "Returned"
    /\ \/ req.op = "AddAlias" /\ HasName(before.aliases, req.name)
       \/ req.op \in {"UpdateAlias", "RemoveAlias"} /\ ~HasName(before.aliases, req.name)

StoreView == Deref(aliases, heap)

\* C24: whatever the caller does to the slice GetAllAliases returned (put
\* another element at an index, assign to a field of an alias, assign to an
\* entry of its Params), the aliases the store holds, with their parameters,
\* are what they were when the slice was returned.
C24_CopyIsolatesStore == StoreView = before.aliases

\* the names, the commands and the numbers of parameters of the store's aliases
\* are what they were when the slice was returned
ElementsAndFieldsKept ==
    \A i \in 1..Len(aliases) :
        /\ StoreView[i].Name = before.aliases[i].Name
        /\ StoreView[i].Command = before.aliases[i].Command
        /\ Len(StoreView[i].Params) = Len(before.aliases[i].Params)

\* C25: when AddAlias, UpdateAlias or RemoveAlias returns on a store whose
\* list in memory was the list of the file, with or without an error and
\* also when writing the file failed, the list in memory is the list of the
\* file as last written, and a call that returned an error has left the
\* list in memory as it was.
C25_MemoryMatchesDisk ==
    (pc = "Returned" /\ before.aliases = before.disk) =>
        /\ aliases = disk
        /\ req.err # "" => aliases = before.aliases

\* the requests that carry the new name zz
CreatorsOf(name) == {g \in DOMAIN goroutines : goroutines[g].body.Name = name}

Answered(G, status) == {g \in G : goroutines[g].status = status}

Holding(list, name) == {i \in 1..Len(list) : list[i].Name = name}

\* C26: when two or more POST /api/aliases requests with the same new name
\* have all been answered and no write of the file has failed, exactly one of
\* them got 201 Created, every other one got 409 Conflict, and the store
\* holds exactly one alias of that name.
C26_OneCreatedOthersConflict ==
    LET G == CreatorsOf(Zz)
    IN  (/\ goroutines # <<>>
         /\ goroutines[1].op = "handleCreateAlias"
         /\ saveFailures = 0
         /\ Cardinality(G) >= 2
         /\ \A g \in G : At(g, "done"))
        => /\ Cardinality(Answered(G, 201)) = 1
           /\ Answered(G, 409) = G \ Answered(G, 201)
           /\ Cardinality(Holding(aliases, Zz)) = 1

HasBrace(s) == \E k \in 1..Len(s) : s[k] \in {"{", "}"}

\* the characters of s from position i on that are in no placeholder token
RECURSIVE OutsideFrom(_, _)
OutsideFrom(s, i) ==
    IF i > Len(s) THEN <<>>
    ELSE LET n == MatchLenAt(s, i)
         IN  IF n = 0 THEN <<s[i]>> \o OutsideFrom(s, i + 1)
             ELSE OutsideFrom(s, i + n)

\* every placeholder of the template is declared and the expansion succeeded
FullyDeclared == pc = "Validated" /\ names = <<>> /\ perr = NoError

\* C27 as stated: when ValidatePlaceholders finds nothing undefined,
\* ParseCommand succeeds and no substituted value contains {{ or }}, the
\* expanded command has no placeholder token, for every template.
C27_ExpandsCompletely ==
    (/\ FullyDeclared
     /\ \A i \in 1..Len(bound) : ~Contains(bound[i], Open) /\ ~Contains(bound[i], Close))
        => ExtractPlaceholders(command) = <<>>

\* C27 amended: the same when the template has no brace outside its
\* placeholder tokens and no substituted value has a brace; the expanded
\* command then has no brace at all.
C27_ExpandsCompletelyNoBraces ==
    (/\ FullyDeclared
     /\ ~HasBrace(OutsideFrom(a.Command, 1))
     /\ \A i \in 1..Len(bound) : ~HasBrace(bound[i]))
        => /\ ~HasBrace(command)
           /\ ExtractPlaceholders(command) = <<>>

C27_Witness ==
    /\ FullyDeclared
    /\ a.Command = Token(X) \o Y \o Token(Y)
    /\ Len(a.Params) = 2
    /\ args = <<Y, Y>>
    /\ command = <<"y", "y", "y">>

\* the distinct entries of a sequence in the order of their first appearance
RECURSIVE FirstAppearances(_)
FirstAppearances(q) ==
    IF q = <<>> THEN <<>>
    ELSE LET front == SubSeq(q, 1, Len(q) - 1)
         IN  IF q[Len(q)] \in Range(front) THEN FirstAppearances(front)
             ELSE Append(FirstAppearances(front), q[Len(q)])

\* C28: when promptParams has returned the parameters of the new alias, their
\* names are pairwise distinct and are the distinct identifiers that
\* ExtractPlaceholders finds in the command, in the order of first
\* appearance; and the alias needs as many arguments as it has distinct
\* required placeholders.
C28_OneParamPerPlaceholder ==
    (req.op = "runAddCmd" /\ (pc = "Adding" \/ (pc = "Terminated" /\ req.err # "prompt"))) =>
        LET params == req.body.Params
            wanted == FirstAppearances(ExtractPlaceholders(req.body.Command))
        IN  /\ \A i, j \in 1..Len(params) : params[i].Name = params[j].Name => i = j
            /\ [i \in 1..Len(params) |-> params[i].Name] = wanted
            /\ Cardinality({i \in 1..Len(params) : params[i].Required})
                  = Cardinality({params[i].Name : i \in {j \in 1..Len(params) : params[j].Required}})

\* C29: `al <name>` reports "alias not found" only when the configuration
\* loaded and its list has no alias of that name, never when the
\* configuration failed to load; and the alias it runs is the first one of
\* that name in the list.
C29_NotFoundMeansAbsent ==
    (caller = "runRootCmd" /\ keyword # <<>>) =>
        /\ Emitted({"not-found"}) # {} => (~cfg.err /\ ~HasName(aliases, keyword[1]))
        /\ a # NoAlias =>
              \E i \in 1..Len(aliases) :
                  /\ aliases[i] = a
                  /\ a.Name = keyword[1]
                  /\ \A j \in 1..(i - 1) : aliases[j].Name # keyword[1]

\* the merge loop of the web import is over: added and skipped are final
ImportCounted ==
    /\ req.op = "handleImportConfig"
    /\ pc = "Importing"
    /\ req.idx > Len(req.file)

\* C30: when the web import has gone through the file, Added + Skipped is
\* the number of aliases in the file, and, no other request having changed
\* the store, the list has grown by exactly Added aliases.
C30_ImportAccounting ==
    ImportCounted =>
        /\ req.added + req.skipped = Len(req.file)
        /\ Len(aliases) = Cardinality(req.existing) + req.added

====
